---- MODULE Spec2Model ----
(***************************************************************************)
(* Resilient request-dispatch layer of python-core:                        *)
(*   llm/orchestrator.py          AsyncCircuitBreaker, LLMOrchestrator     *)
(*   llm/rate_limiter.py          TokenBucketRateLimiter                   *)
(*   llm/cache.py                 SecureCacheManager                       *)
(*   llm/providers/openai_provider.py  OpenAIProvider                      *)
(*   adapters/elevenlabs_adapter.py  AudioCache, ElevenLabsAdapter         *)
(*   bot/middleware/antiflood.py, utils/antiflood.py  flood controls       *)
(*   storage/redis_session_store.py  RedisSessionStore                     *)
(*                                                                         *)
(* The specifications of the module share its variables:                   *)
(*   SpecCB     concurrent callers of one AsyncCircuitBreaker              *)
(*   SpecOrch   concurrent LLMOrchestrator.generate invocations            *)
(*   SpecChain  one generate_with_emotion_chain dispatch                   *)
(*   SpecTTS    ElevenLabsAdapter: workers, queue, synthesize_speech       *)
(*   SpecAPI, SpecPool, SpecIdleQueue, SpecCache  the adapter's methods,   *)
(*              its worker pool, and SecureCacheManager beside it          *)
(*   SpecKey, SpecMem, SpecBackoff  cache key, in-process cap, retry sleeps*)
(*   SpecRL, SpecRefill  TokenBucketRateLimiter.check                      *)
(*   SpecOpenAI  OpenAIProvider.generate                                   *)
(*   SpecFlood, SpecFloodPair  InMemoryFloodControl, and the Redis control *)
(*   SpecSession  RedisSessionStore                                        *)
(* Every coroutine is cut at its suspension points (await of I/O, of a     *)
(* queue, of a future); the code between two suspension points runs        *)
(* atomically on the event loop and is one action.                         *)
(***************************************************************************)
EXTENDS Integers, Sequences, FiniteSets, TLC

\* ---------------------------------------------------------------- bounds
MaxTime      == 8     \* the clock stops here
NCallers     == 2     \* concurrent callers of the breaker
MaxFailCount == 4     \* cap of the breaker's failure counter
NGen         == 2     \* generate() invocations
OrchMaxTime  == 2     \* the clock of SpecOrch stops here
NSynth       == 2     \* synthesize_speech() invocations
MaxTasks     == 1     \* worker tasks ever created by start_workers()
TimeStep     == 3600  \* seconds per clock step of SpecTTS
TTSMaxTime   == 1     \* the clock of SpecTTS stops after so many steps
Res          == 2     \* clock steps of SpecRL per second
RLMaxTime    == 3     \* the clock of SpecRL stops here, in steps
NCheckers    == 2     \* concurrent check() invocations
MaxChecks    == 3     \* check() calls made in all
NScm         == 2     \* get_or_set() invocations
NDispatch    == 1     \* synthesize_speech() invocations beside them
NUsers       == 2     \* user ids calling is_flooding()
FloodMaxTime == 3     \* the clock of SpecFlood stops here
MaxFloodCalls == 4    \* is_flooding() calls made in all
NOai         == 2     \* OpenAIProvider.generate() invocations
MemMaxTime   == 3     \* the clock of SpecMem stops here
RefillMaxTime == 6    \* the clock of SpecRefill stops here, in seconds
NJobs        == 2     \* _process_tts_request() invocations
NWriters     == 3     \* tasks that read and then write one session
MaxDeletes   == 1     \* delete() calls made in all
PairMaxTime  == 3     \* the clock of SpecFloodPair stops here
MaxPairCalls == 4     \* requests fed to the two flood controls

\* ------------------------------------------------------ program constants
max_failures  == 2    \* AsyncCircuitBreaker.__init__ default
reset_timeout == 5    \* LLMOrchestrator.__init__: reset_timeout=5
OutputLimit   == 4096 \* sanitize_output: output[:4096]
max_workers   == 1    \* ElevenLabsAdapter(max_workers=1), as in the tests
max_retries   == 3    \* ElevenLabsAdapter.__init__ default
cache_ttl     == 3600 \* AudioCache.__init__ default
default_ttl   == 3600 \* SecureCacheManager.__init__ default
openai_max_retries == 4 \* OpenAIProvider.__init__ default of max_retries
MemEntryLimit == 1048576  \* AudioCache.set: len(audio_data) < 1024 * 1024
MemCacheSize  == 50   \* AudioCache.set: len(self._memory_cache) > 50

VARIABLES
  now,        \* time.monotonic() / time.time(), in seconds
  cb,         \* SpecCB: the breaker [fail_count, last_failure, open]
  call,       \* SpecCB: per caller, the position of its call()
  consec,     \* SpecCB history: failures since the last success
  lastFailAt, \* SpecCB history: clock value at the last failure
  overlap,    \* SpecCB history: two calls were in flight at once
  wait_wraps,       \* SpecOrch: asyncio.wait() wraps bare coroutines in tasks
                    \* (Python <= 3.10); from 3.11 on it raises TypeError
  cache_on,         \* SpecOrch: LLMOrchestrator was given a redis_url
  llm_cache,        \* SpecOrch: RedisCache._mem, key -> value or None
  circuit_breakers, \* SpecOrch: provider name -> breaker
  gen,              \* SpecOrch: per generate() invocation, its position
  task,             \* SpecOrch: the task made by _call_provider, per
                    \* invocation and provider name
  provider_calls,   \* SpecOrch history: provider.generate() calls, per name
  preloaded,        \* SpecTTS: a job was placed on request_queue directly
  redis_on,         \* SpecTTS: the adapter was given a redis_client
  fallback_on,      \* SpecTTS: the adapter was given a fallback_provider
  audit,            \* SpecAPI: the per-invocation histories are recorded
  redis_store,      \* SpecTTS: the remote store, key -> None or entry
  memory_cache,     \* SpecTTS: AudioCache._memory_cache
  is_running,       \* SpecTTS: ElevenLabsAdapter.is_running
  workers,          \* SpecTTS: self.workers, the tasks of the last start
  wtask,            \* SpecTTS: every worker task ever created
  request_queue,    \* SpecTTS: the jobs on the asyncio.Queue, FIFO
  fut,              \* SpecTTS: per job, its asyncio.Future
  synth,            \* SpecTTS: per synthesize_speech() invocation
  stopper,          \* SpecTTS: the position of stop_workers()
  stats,            \* SpecTTS: ElevenLabsAdapter.stats
  hist,             \* SpecTTS history: per job taken/fulfilled counts, per
                    \* key the time a provider last served it
  bucket,           \* SpecRL: the two Redis keys of one bucket, each with
                    \* its expiry, and (history) the capacity of its writer
  chk,              \* SpecRL: per check() invocation, position and locals
  rl_hist,          \* SpecRL history: calls started, admitted, finished
  scm_store,        \* SpecCache: the Redis keys SecureCacheManager writes
  goc,              \* SpecCache: per get_or_set() invocation
  flood,            \* SpecFlood: InMemoryFloodControl, its _cache and the
                    \* last verdict returned
  fl_hist,          \* SpecFlood history: per user the times of its calls
  oai,              \* SpecOpenAI: whether the log calls raise, and per
                    \* generate() invocation its position and locals
  key_cache,        \* SpecKey: AudioCache by cache key, the audio held
  key_call,         \* SpecKey: the synthesize_speech() invocation under way
  mem,              \* SpecMem: AudioCache._memory_cache, its keys in
                    \* insertion order and the write time of each
  mem_last,         \* SpecMem: the last AudioCache.set, its key and what
                    \* it removed
  rb,               \* SpecRefill: one bucket under check() calls made one
                    \* after another, with the tokens credited so far
  job,              \* SpecBackoff: per _process_tts_request() invocation
                    \* its attempt, the last response and the last sleep
  chain,            \* SpecChain: generate_with_emotion_chain(), its
                    \* position and chain_stats
  session,          \* SpecSession: RedisSessionStore._storage[session_id]
                    \* and the number of changes made to it
  writer,           \* SpecSession: per writer what it read and how its
                    \* set_with_version() ended
  pair              \* SpecFloodPair: AsyncRedisFloodControl's sorted set
                    \* and its fallback's timestamps, fed the same requests

cbVars == <<cb, call, consec, lastFailAt, overlap>>

orchVars == <<wait_wraps, cache_on, llm_cache, circuit_breakers, gen, task,
              provider_calls>>

ttsVars == <<preloaded, redis_on, fallback_on, audit, redis_store, memory_cache,
             is_running, workers, wtask, request_queue, fut, synth, stopper,
             stats, hist>>

rlVars == <<bucket, chk, rl_hist>>

scmVars == <<scm_store, goc>>

floodVars == <<flood, fl_hist>>

oaiVars == <<oai>>

keyVars == <<key_cache, key_call>>

memVars == <<mem, mem_last>>

rbVars == <<rb>>

jobVars == <<job>>

chainVars == <<chain>>

sessVars == <<session, writer>>

pairVars == <<pair>>

vars == <<now, cbVars, orchVars, ttsVars, rlVars, scmVars,
           floodVars, oaiVars, keyVars, memVars, rbVars, jobVars, chainVars, sessVars, pairVars>>

\* ============================================================ the breaker
Callers == 1..NCallers

\* AsyncCircuitBreaker.__init__
NewBreaker == [fail_count |-> 0, last_failure |-> 0, open |-> FALSE]

\* call(): the gate `if self.open and (monotonic() - last_failure < reset_timeout)`
CBRejects_strict(b, t) == b.open /\ (t - b.last_failure <= reset_timeout)

CBRejects(b, t) == b.open /\ (t - b.last_failure < reset_timeout)

\* call(): the success branch, under the lock
CBOnSuccess_keep(b) == [b EXCEPT !.open = FALSE]

\* CBOnSuccess leaving the breaker open
CBOnSuccess_count(b) == [b EXCEPT !.fail_count = 0]

CBOnSuccess(b) == [b EXCEPT !.fail_count = 0, !.open = FALSE]

\* CBOnFailure opening one failure late
CBOnFailure_late(b, t) ==
  [fail_count   |-> b.fail_count + 1,
   last_failure |-> t,
   open         |-> IF b.fail_count + 1 > max_failures THEN TRUE ELSE b.open]

\* call(): the `except Exception` branch, under the lock
CBOnFailure(b, t) ==
  [fail_count   |-> b.fail_count + 1,
   last_failure |-> t,
   open         |-> IF b.fail_count + 1 >= max_failures THEN TRUE ELSE b.open]

\* ======================================================= the orchestrator
Gens == 1..NGen

\* LLMOrchestrator.__init__: self.providers
ProviderNames == {"logic", "fallback"}

TaskTypes == {"logic", "fallback"}

Prompts == {"p1"}

\* what a provider may answer: response.content, a string
Contents == {<<" ", "x", " ">>}

None == [kind |-> "none"]

Str(s) == [kind |-> "str", s |-> s]

\* the asyncio.Task object that _call_provider returns
TaskObj(g, n) == [kind |-> "task", of |-> <<g, n>>]

\* _cache_key: task_type and the two sha256 digests, taken as injective
cache_key(task_type, prompt) == <<task_type, prompt>>

CacheKeys == {cache_key(tt, p) : tt \in TaskTypes, p \in Prompts}

Min(a, b) == IF a < b THEN a ELSE b

IsSpace(ch) == ch = " "

RECURSIVE LStrip(_)
LStrip(s) == IF s # <<>> /\ IsSpace(Head(s)) THEN LStrip(Tail(s)) ELSE s

RECURSIVE RStrip(_)
RStrip(s) == IF s # <<>> /\ IsSpace(s[Len(s)])
               THEN RStrip(SubSeq(s, 1, Len(s) - 1)) ELSE s

\* str.strip()
Strip(s) == RStrip(LStrip(s))

\* Python truthiness of a value
Truthy(v) == CASE v.kind = "none" -> FALSE
               [] v.kind = "str"  -> v.s # <<>>
               [] OTHER           -> TRUE

\* sanitize_output: `if not output: return ""`, output[:4096], strip();
\* slicing anything that is not a string raises TypeError
sanitize_output(v) ==
  IF ~Truthy(v) THEN [ok |-> TRUE, val |-> Str(<<>>)]
  ELSE IF v.kind = "str"
    THEN [ok |-> TRUE,
          val |-> Str(Strip(SubSeq(v.s, 1, Min(OutputLimit, Len(v.s)))))]
    ELSE [ok |-> FALSE, val |-> None]

\* generate(): the providers raced as primaries
Primaries(task_type) ==
  {n \in ProviderNames :
     ~(n = "fallback" \/ (task_type # n /\ n # "logic"))}

NoTask == [st |-> "none", val |-> None]

IdleGen == [pc |-> "idle", task_type |-> "logic", prompt |-> "p1",
            hit |-> FALSE, result |-> None, err |-> "none"]

InitOrch ==
  /\ llm_cache = [k \in CacheKeys |-> None]
  /\ circuit_breakers = [n \in ProviderNames |-> NewBreaker]
  /\ gen = [g \in Gens |-> IdleGen]
  /\ task = [g \in Gens |-> [n \in ProviderNames |-> NoTask]]
  /\ provider_calls = [n \in ProviderNames |-> 0]

\* generate() up to `await asyncio.wait(tasks, ...)`: the cache lookup, the
\* list of _call_provider(...) coroutine objects, and the call of wait()
GenBegin(g, tt, p) ==
  /\ gen[g].pc = "idle"
  /\ LET cached == IF cache_on THEN llm_cache[cache_key(tt, p)] ELSE None
         me == [gen[g] EXCEPT !.task_type = tt, !.prompt = p]
     IN  IF cache_on /\ Truthy(cached)
           THEN gen' = [gen EXCEPT ![g] = [me EXCEPT !.pc = "returned",
                                             !.hit = TRUE, !.result = cached]]
           ELSE IF wait_wraps
             THEN gen' = [gen EXCEPT ![g] = [me EXCEPT !.pc = "waiting"]]
             ELSE gen' = [gen EXCEPT ![g] = [me EXCEPT !.pc = "raised",
                                               !.err = "TypeError"]]
  /\ UNCHANGED <<ttsVars, pairVars, sessVars, jobVars, rbVars, memVars, keyVars, floodVars, oaiVars, rlVars, scmVars>>
  /\ UNCHANGED <<now, cbVars, wait_wraps, cache_on, llm_cache,
                 circuit_breakers, task, provider_calls>>

\* generate() called directly
GenStart(g, tt, p) == GenBegin(g, tt, p) /\ UNCHANGED chainVars

\* the task that wait() made of the coroutine _call_provider(...) runs: it
\* creates the task fut = create_task(cb.call(wait_for(wrapper(), timeout)))
\* and returns fut, which ends it
CallProviderRun(g) ==
  /\ gen[g].pc = "waiting"
  /\ \A n \in Primaries(gen[g].task_type) : task[g][n].st = "none"
  /\ task' = [task EXCEPT ![g] =
                [n \in ProviderNames |->
                   IF n \in Primaries(gen[g].task_type)
                     THEN [st |-> "created", val |-> None] ELSE task[g][n]]]
  /\ UNCHANGED <<ttsVars, pairVars, sessVars, chainVars, jobVars, rbVars, memVars, keyVars, floodVars, oaiVars, rlVars, scmVars>>
  /\ UNCHANGED <<now, cbVars, wait_wraps, cache_on, llm_cache,
                 circuit_breakers, gen, provider_calls>>

\* the first step of cb.call(...) in a created task: the gate, then `await coro`
TaskStart(g, n) ==
  /\ task[g][n].st = "created"
  /\ IF CBRejects(circuit_breakers[n], now)
       THEN /\ task' = [task EXCEPT ![g][n].st = "rejected"]
            /\ UNCHANGED provider_calls
       ELSE /\ task' = [task EXCEPT ![g][n].st = "running"]
            /\ provider_calls' = [provider_calls EXCEPT ![n] = @ + 1]
  /\ UNCHANGED <<ttsVars, pairVars, sessVars, chainVars, jobVars, rbVars, memVars, keyVars, floodVars, oaiVars, rlVars, scmVars>>
  /\ UNCHANGED <<now, cbVars, wait_wraps, cache_on, llm_cache,
                 circuit_breakers, gen>>

\* provider.generate() returns: wrapper() returns response.content
TaskSucceed(g, n, v) ==
  /\ task[g][n].st = "running"
  /\ task' = [task EXCEPT ![g][n] = [st |-> "ok", val |-> Str(v)]]
  /\ circuit_breakers' = [circuit_breakers EXCEPT ![n] = CBOnSuccess(@)]
  /\ UNCHANGED <<ttsVars, pairVars, sessVars, chainVars, jobVars, rbVars, memVars, keyVars, floodVars, oaiVars, rlVars, scmVars>>
  /\ UNCHANGED <<now, cbVars, wait_wraps, cache_on, llm_cache, gen,
                 provider_calls>>

\* provider.generate() raises, or wait_for() raises asyncio.TimeoutError
TaskFail(g, n) ==
  /\ task[g][n].st = "running"
  /\ circuit_breakers[n].fail_count < MaxFailCount
  /\ task' = [task EXCEPT ![g][n].st = "failed"]
  /\ circuit_breakers' = [circuit_breakers EXCEPT ![n] = CBOnFailure(@, now)]
  /\ UNCHANGED <<ttsVars, pairVars, sessVars, chainVars, jobVars, rbVars, memVars, keyVars, floodVars, oaiVars, rlVars, scmVars>>
  /\ UNCHANGED <<now, cbVars, wait_wraps, cache_on, llm_cache, gen,
                 provider_calls>>

\* generate() from the return of wait() to its end.  `done` holds the tasks
\* wait() made, all finished, each with the Task object as its result;
\* `pending` is empty.  The `for fut in done` loop and the fallback block
\* follow; after `await self._call_provider(...)` the result is again the
\* Task object.
GenResume(g) ==
  /\ gen[g].pc = "waiting"
  /\ \A n \in Primaries(gen[g].task_type) : task[g][n].st \notin {"none", "created"}
  /\ LET key  == cache_key(gen[g].task_type, gen[g].prompt)
         won  == {n \in Primaries(gen[g].task_type) :
                    sanitize_output(TaskObj(g, n)).ok}
         fb   == sanitize_output(TaskObj(g, "fallback"))
     IN  IF won # {}
           THEN \E n \in won :
                  /\ gen' = [gen EXCEPT ![g].pc = "returned",
                               ![g].result = sanitize_output(TaskObj(g, n)).val]
                  /\ llm_cache' = IF cache_on
                       THEN [llm_cache EXCEPT ![key] = sanitize_output(TaskObj(g, n)).val]
                       ELSE llm_cache
                  /\ UNCHANGED task
           ELSE /\ task' = [task EXCEPT ![g]["fallback"] =
                                          [st |-> "created", val |-> None]]
                /\ IF fb.ok
                     THEN /\ gen' = [gen EXCEPT ![g].pc = "returned",
                                                ![g].result = fb.val]
                          /\ llm_cache' = IF cache_on
                               THEN [llm_cache EXCEPT ![key] = fb.val]
                               ELSE llm_cache
                     ELSE /\ gen' = [gen EXCEPT ![g].pc = "raised",
                                                ![g].err = "RuntimeError"]
                          /\ UNCHANGED llm_cache
  /\ UNCHANGED <<ttsVars, pairVars, sessVars, chainVars, jobVars, rbVars, memVars, keyVars, floodVars, oaiVars, rlVars, scmVars>>
  /\ UNCHANGED <<now, cbVars, wait_wraps, cache_on, circuit_breakers,
                 provider_calls>>

TickOrch ==
  /\ now < OrchMaxTime
  /\ now' = now + 1
  /\ UNCHANGED <<cbVars, pairVars, sessVars, chainVars, jobVars, rbVars, memVars, keyVars, orchVars, floodVars, oaiVars, ttsVars, rlVars, scmVars>>

NextOrch ==
  \/ \E g \in Gens, tt \in TaskTypes, p \in Prompts : GenStart(g, tt, p)
  \/ \E g \in Gens : CallProviderRun(g)
  \/ \E g \in Gens, n \in ProviderNames : TaskStart(g, n)
  \/ \E g \in Gens, n \in ProviderNames, v \in Contents : TaskSucceed(g, n, v)
  \/ \E g \in Gens, n \in ProviderNames : TaskFail(g, n)
  \/ \E g \in Gens : GenResume(g)
  \/ TickOrch


\* ------------------------------------------- generate_with_emotion_chain
\* generate() invocation g has returned or raised
Finished(g) == gen[g].pc \in {"returned", "raised"}

\* the generate() invocations of the one dispatch
LogicGen == 1

FallbackGen == 2

IdleChain == [pc |-> "idle", total_requests |-> 0, logic_only |-> 0,
              fallback_used |-> 0]

InitChain == chain = IdleChain

\* generate_with_emotion_chain() up to the first suspension of
\* generate("logic", ...)
ChainStart(p) ==
  /\ chain.pc = "idle"
  /\ chain' = [chain EXCEPT !.pc = "logic", !.total_requests = @ + 1]
  /\ GenBegin(LogicGen, "logic", p)

\* generate("logic", ...) has ended: its result is returned, or, when it
\* raised or the result is blank, the except block counts a fallback and
\* calls generate("fallback", ...)
ChainAfterLogic ==
  /\ chain.pc = "logic"
  /\ Finished(LogicGen)
  /\ IF gen[LogicGen].pc = "returned" /\ gen[LogicGen].result.kind = "str"
        /\ Strip(gen[LogicGen].result.s) # <<>>
       THEN /\ chain' = [chain EXCEPT !.pc = "returned", !.logic_only = @ + 1]
            /\ UNCHANGED <<now, cbVars, pairVars, sessVars, orchVars, ttsVars, rlVars, scmVars,
                           floodVars, oaiVars, keyVars, memVars, rbVars,
                           jobVars>>
       ELSE /\ chain' = [chain EXCEPT !.pc = "fallback",
                                      !.fallback_used = @ + 1]
            /\ GenBegin(FallbackGen, "fallback", gen[LogicGen].prompt)

\* generate("fallback", ...) has ended, and the dispatch with it
ChainEnd ==
  /\ chain.pc = "fallback"
  /\ Finished(FallbackGen)
  /\ chain' = [chain EXCEPT !.pc = gen[FallbackGen].pc]
  /\ UNCHANGED <<now, cbVars, pairVars, sessVars, orchVars, ttsVars, rlVars, scmVars, floodVars,
                 oaiVars, keyVars, memVars, rbVars, jobVars>>

NextChain ==
  \/ \E p \in Prompts : ChainStart(p)
  \/ ChainAfterLogic
  \/ ChainEnd
  \/ \E g \in {LogicGen, FallbackGen} : CallProviderRun(g)
  \/ \E g \in {LogicGen, FallbackGen}, n \in ProviderNames : TaskStart(g, n)
  \/ \E g \in {LogicGen, FallbackGen}, n \in ProviderNames, v \in Contents :
       TaskSucceed(g, n, v)
  \/ \E g \in {LogicGen, FallbackGen}, n \in ProviderNames : TaskFail(g, n)
  \/ \E g \in {LogicGen, FallbackGen} : GenResume(g)
  \/ TickOrch

\* ============================================================ the adapter
Synths == 1..NSynth

\* a job is a (future, request) pair; job c is the one synthesize_speech()
\* invocation c makes, SeedJob one that was put on request_queue directly
SeedJob == NSynth + 1

Jobs == 1..(NSynth + 1)

TaskIds == 1..MaxTasks

Texts == {"t1"}

\* _resolve_voice_id("alena")
VoiceIds == {"pNInz6obpgDQGcFmaJgB"}

NoAudio == [len |-> -1, by |-> "none"]

\* what ElevenLabs may answer with status 200: response.read()
PrimaryAudio == {[len |-> n, by |-> "elevenlabs"] : n \in {1, MemEntryLimit}}

\* what fallback_provider.synthesize() may return
FallbackAudio == {[len |-> 1, by |-> "openai"]}

\* session.post(): the status, or the exception it raises
Outcomes == {"200", "429", "5xx", "4xx", "timeout", "client_error", "exc"}

\* AudioCache._get_cache_key; the settings are always the Alena settings and
\* the sha256 digest is taken as injective
audio_cache_key(text, voice_id) == <<text, voice_id>>

AudioKeys == {audio_cache_key(t, v) : t \in Texts, v \in VoiceIds}

KeyOf(text) == audio_cache_key(text, CHOOSE v \in VoiceIds : TRUE)

Entry(t, a) == [kind |-> "entry", entry_time |-> t, audio |-> a]

\* AudioCacheGet without the try/except around the remote read
AudioCacheGet_raises(key, redis_ok) ==
  LET m == memory_cache[key]
      r == redis_store[key]
  IN  IF redis_on /\ ~redis_ok
        THEN [audio |-> NoAudio, mem |-> memory_cache, raised |-> TRUE]
        ELSE IF redis_on /\ r.kind = "entry" /\ now < r.entry_time + cache_ttl
          THEN [audio |-> r.audio, mem |-> memory_cache, raised |-> FALSE]
          ELSE IF m.kind = "entry" /\ now - m.entry_time < cache_ttl
            THEN [audio |-> m.audio, mem |-> memory_cache, raised |-> FALSE]
            ELSE [audio |-> NoAudio, mem |-> [memory_cache EXCEPT ![key] = None],
                  raised |-> FALSE]

\* AudioCacheGet answering from the in-process store whatever the entry's age
AudioCacheGet_stale(key, redis_ok) ==
  LET r == redis_store[key]
      m == memory_cache[key]
  IN  IF redis_on /\ redis_ok /\ r.kind = "entry" /\ now < r.entry_time + cache_ttl
        THEN [audio |-> r.audio, mem |-> memory_cache, raised |-> FALSE]
        ELSE IF m.kind = "entry"
          THEN [audio |-> m.audio, mem |-> memory_cache, raised |-> FALSE]
          ELSE [audio |-> NoAudio, mem |-> memory_cache, raised |-> FALSE]

\* AudioCache.get: the remote store first, then the in-process store; an
\* expired in-process entry is deleted
AudioCacheGet(key, redis_ok) ==
  LET r == redis_store[key]
      remote == IF redis_on /\ redis_ok /\ r.kind = "entry"
                   /\ now < r.entry_time + cache_ttl
                  THEN r.audio ELSE NoAudio
      m == memory_cache[key]
  IN  IF remote.len > 0
        THEN [audio |-> remote, mem |-> memory_cache, raised |-> FALSE]
        ELSE IF m.kind = "entry"
          THEN IF now - m.entry_time < cache_ttl
                 THEN [audio |-> m.audio, mem |-> memory_cache, raised |-> FALSE]
                 ELSE [audio |-> NoAudio,
                       mem |-> [memory_cache EXCEPT ![key] = None],
                       raised |-> FALSE]
          ELSE [audio |-> NoAudio, mem |-> memory_cache, raised |-> FALSE]

\* AudioCacheSet writing the remote store only
AudioCacheSet_remote(key, audio, redis_ok) ==
  [redis |-> IF redis_on /\ redis_ok
               THEN [redis_store EXCEPT ![key] = Entry(now, audio)]
               ELSE redis_store,
   mem   |-> memory_cache, raised |-> FALSE]

\* AudioCache.set: setex on the remote store, then the in-process store for
\* audio under 1 MiB, dropping the oldest entry above 50 entries
AudioCacheSet(key, audio, redis_ok) ==
  LET mem1 == IF audio.len < MemEntryLimit
                THEN [memory_cache EXCEPT ![key] = Entry(now, audio)]
                ELSE memory_cache
      held == {k \in AudioKeys : mem1[k].kind = "entry"}
      oldest == CHOOSE k \in held :
                  \A k2 \in held : mem1[k].entry_time <= mem1[k2].entry_time
  IN  [redis |-> IF redis_on /\ redis_ok
                   THEN [redis_store EXCEPT ![key] = Entry(now, audio)]
                   ELSE redis_store,
       mem   |-> IF audio.len < MemEntryLimit /\ Cardinality(held) > MemCacheSize
                   THEN [mem1 EXCEPT ![oldest] = None] ELSE mem1,
       raised |-> FALSE]

\* AfterAttempt without the retry loop
AfterAttempt_noretry(a, o) == IF o = "200" THEN "return" ELSE "raise"

\* _process_tts_request: what follows attempt number a with outcome o
AfterAttempt(a, o) ==
  CASE o = "200" -> "return"
    [] o \in {"429", "5xx"} ->
         IF a + 1 < max_retries THEN "retry" ELSE "raise"
    [] o \in {"timeout", "client_error"} ->
         IF a < max_retries - 1 THEN "retry" ELSE "raise"
    [] OTHER -> "raise"

NoResp == [audio |-> NoAudio, cached |-> FALSE, provider |-> "none"]

IdleSynth == [pc |-> "idle", text |-> "t1", after_served |-> FALSE,
              attempt |-> 0, fb_calls |-> 0, resp |-> NoResp,
              cause |-> "none", sets |-> 0]

NoFuture == [st |-> "none", audio |-> NoAudio, err |-> "none"]

NoWorker == [st |-> "unused", job |-> 0, attempt |-> 0, cancel |-> FALSE]

\* the jobs being executed (_process_tts_request in progress)
Executing ==
  {c \in Synths : synth[c].pc = "processing"}
    \cup {wtask[w].job : w \in {x \in TaskIds : wtask[x].st = "busy"}}

InitTTS ==
  /\ redis_store = [k \in AudioKeys |-> None]
  /\ memory_cache = [k \in AudioKeys |-> None]
  /\ is_running = FALSE
  /\ workers = {}
  /\ wtask = [w \in TaskIds |-> NoWorker]
  /\ request_queue = IF preloaded THEN <<SeedJob>> ELSE <<>>
  /\ fut = [j \in Jobs |-> IF preloaded /\ j = SeedJob
                             THEN [NoFuture EXCEPT !.st = "pending"]
                             ELSE NoFuture]
  /\ synth = [c \in Synths |-> IdleSynth]
  /\ stopper = [pc |-> "idle", tasks |-> {}, was_running |-> FALSE]
  /\ stats = [requests_total |-> 0, requests_cached |-> 0, requests_failed |-> 0]
  /\ hist = [taken     |-> [j \in Jobs |-> 0],
             fulfilled |-> [j \in Jobs |-> 0],
             served_at |-> [k \in AudioKeys |-> -1]]

\* ElevenLabsAdapter(api_key): no redis_client, no fallback_provider
InitAdapter ==
  /\ preloaded = FALSE /\ redis_on = FALSE /\ fallback_on = FALSE
  /\ audit = FALSE
  /\ InitTTS

\* ElevenLabsAdapter(api_key, redis_client, fallback_provider), and the
\* state in which a (future, request) pair already lies on request_queue
InitQueue ==
  /\ preloaded \in BOOLEAN /\ redis_on \in BOOLEAN /\ fallback_on \in BOOLEAN
  /\ audit = FALSE
  /\ InitTTS

\* ElevenLabsAdapter(api_key, redis_client, fallback_provider) used through
\* its methods only, with the history of every invocation recorded
InitMethods ==
  /\ preloaded = FALSE /\ redis_on \in BOOLEAN /\ fallback_on \in BOOLEAN
  /\ audit = TRUE
  /\ InitTTS

\* ElevenLabsAdapter(api_key, redis_client), with or without a fallback
InitClients ==
  /\ preloaded = FALSE /\ redis_on = TRUE /\ fallback_on \in BOOLEAN
  /\ audit = FALSE
  /\ InitTTS

\* LLMOrchestrator(): no cache
InitOrchIdle == wait_wraps = TRUE /\ cache_on = FALSE /\ InitOrch

\* LLMOrchestrator(redis_url) or LLMOrchestrator(), on either Python build
InitOrchAny == wait_wraps \in BOOLEAN /\ cache_on \in BOOLEAN /\ InitOrch

\* the exception _process_tts_request ends with after outcome o
Raised(o) ==
  CASE o = "4xx" -> "permanent"
    [] o = "exc" -> "other"
    [] OTHER     -> "exhausted"

\* a history value, kept only where histories are recorded
Kept(v, d) == IF audit THEN v ELSE d

\* SynthFailed with no fallback call
SynthFailed_nofb(c, why) ==
  /\ stats' = [stats EXCEPT !.requests_failed = @ + 1]
  /\ synth' = [synth EXCEPT ![c].pc = "raised",
                            ![c].attempt = Kept(@, 0),
                            ![c].cause = Kept(why, "none")]

\* synthesize_speech(): the `except Exception` block up to the fallback call
SynthFailed(c, why) ==
  /\ stats' = [stats EXCEPT !.requests_failed = @ + 1]
  /\ synth' = [synth EXCEPT ![c].pc = IF fallback_on THEN "fallback" ELSE "raised",
                            ![c].attempt = Kept(@, 0),
                            ![c].cause = Kept(why, "none")]

\* Enqueues whenever the workers run
Enqueues_running == is_running

\* synthesize_speech: `if self.is_running and not self.request_queue.empty()`
Enqueues == is_running /\ request_queue # <<>>

\* synthesize_speech() up to `await future` or to the first session.post()
SynthStart(c, text, redis_ok) ==
  /\ synth[c].pc = "idle"
  /\ LET key == KeyOf(text)
         got == AudioCacheGet(key, redis_ok)
         me  == [synth[c] EXCEPT !.text = text,
                   !.after_served = (hist.served_at[key] >= 0
                                     /\ now - hist.served_at[key] < cache_ttl)]
     IN  /\ memory_cache' = got.mem
         /\ IF got.raised
              THEN /\ stats' = [stats EXCEPT !.requests_total = @ + 1,
                                             !.requests_failed = @ + 1]
                   /\ synth' = [synth EXCEPT ![c] =
                        [me EXCEPT !.pc = IF fallback_on THEN "fallback" ELSE "raised",
                                   !.cause = Kept("cache", "none")]]
                   /\ UNCHANGED <<request_queue, fut>>
            ELSE IF got.audio.len > 0
              THEN /\ stats' = [stats EXCEPT !.requests_total = @ + 1,
                                             !.requests_cached = @ + 1]
                   /\ synth' = [synth EXCEPT ![c] =
                        [me EXCEPT !.pc = "returned",
                           !.resp = [audio |-> got.audio, cached |-> TRUE,
                                     provider |-> "elevenlabs"]]]
                   /\ UNCHANGED <<request_queue, fut>>
              ELSE /\ stats' = [stats EXCEPT !.requests_total = @ + 1]
                   /\ IF Enqueues
                        THEN /\ fut' = [fut EXCEPT ![c].st = "pending"]
                             /\ request_queue' = Append(request_queue, c)
                             /\ synth' = [synth EXCEPT ![c] = [me EXCEPT !.pc = "queued"]]
                        ELSE /\ synth' = [synth EXCEPT ![c] = [me EXCEPT !.pc = "processing"]]
                             /\ UNCHANGED <<request_queue, fut>>
  /\ UNCHANGED <<now, cbVars, pairVars, sessVars, chainVars, jobVars, rbVars, memVars, keyVars, orchVars, floodVars, oaiVars, rlVars, scmVars, preloaded, redis_on, fallback_on, audit,
                 redis_store, is_running, workers, wtask, stopper, hist>>

\* one attempt of _process_tts_request run in the caller's own task, with
\* what synthesize_speech() does when it returns or raises
SynthAttempt(c, o, audio, redis_ok) ==
  /\ synth[c].pc = "processing"
  /\ LET key == KeyOf(synth[c].text)
         put == AudioCacheSet(key, audio, redis_ok)
         res == IF o = "200" /\ put.raised
                  THEN "raise" ELSE AfterAttempt(synth[c].attempt, o)
         why == IF o = "200" THEN "cache" ELSE Raised(o)
     IN  CASE res = "return" ->
                /\ redis_store' = put.redis
                /\ memory_cache' = put.mem
                /\ synth' = [synth EXCEPT ![c].pc = "returned",
                               ![c].attempt = Kept(@, 0),
                               ![c].sets = Kept(@ + 1, 0),
                               ![c].resp = [audio |-> audio, cached |-> FALSE,
                                            provider |-> "elevenlabs"]]
                /\ hist' = [hist EXCEPT !.served_at[key] = now]
                /\ UNCHANGED stats
           [] res = "retry" ->
                /\ synth' = [synth EXCEPT ![c].attempt = @ + 1]
                /\ UNCHANGED hist
                /\ UNCHANGED <<redis_store, memory_cache, stats>>
           [] OTHER ->
                /\ SynthFailed(c, why)
                /\ UNCHANGED hist
                /\ UNCHANGED <<redis_store, memory_cache>>
  /\ UNCHANGED <<now, cbVars, pairVars, sessVars, chainVars, jobVars, rbVars, memVars, keyVars, orchVars, floodVars, oaiVars, rlVars, scmVars, preloaded, redis_on, fallback_on, audit,
                 is_running, workers, wtask, request_queue, fut, stopper>>

\* `response = await future` resumes once the worker has fulfilled the future
SynthFuture(c) ==
  /\ synth[c].pc = "queued"
  /\ fut[c].st \in {"result", "exception"}
  /\ IF fut[c].st = "result"
       THEN /\ synth' = [synth EXCEPT ![c].pc = "returned",
                           ![c].resp = [audio |-> fut[c].audio, cached |-> FALSE,
                                        provider |-> "elevenlabs"]]
            /\ UNCHANGED stats
       ELSE SynthFailed(c, fut[c].err)
  /\ UNCHANGED <<now, cbVars, pairVars, sessVars, chainVars, jobVars, rbVars, memVars, keyVars, orchVars, floodVars, oaiVars, rlVars, scmVars, preloaded, redis_on, fallback_on, audit,
                 redis_store, memory_cache, is_running, workers, wtask,
                 request_queue, fut, stopper, hist>>

\* fallback_provider.synthesize(text, "nova") returns or raises
SynthFallback(c, ok, audio) ==
  /\ synth[c].pc = "fallback"
  /\ IF ok
       THEN /\ synth' = [synth EXCEPT ![c].pc = "returned",
                           ![c].fb_calls = @ + 1,
                           ![c].resp = [audio |-> audio, cached |-> FALSE,
                                        provider |-> "openai_fallback"]]
            /\ hist' = [hist EXCEPT !.served_at[KeyOf(synth[c].text)] = now]
       ELSE /\ synth' = [synth EXCEPT ![c].pc = "raised", ![c].fb_calls = @ + 1]
            /\ UNCHANGED hist
  /\ UNCHANGED <<now, cbVars, pairVars, sessVars, chainVars, jobVars, rbVars, memVars, keyVars, orchVars, floodVars, oaiVars, rlVars, scmVars, preloaded, redis_on, fallback_on, audit,
                 redis_store, memory_cache, is_running, workers, wtask,
                 request_queue, fut, stopper, stats>>

\* start_workers(): nothing when running, else max_workers new tasks
StartWorkers ==
  /\ ~is_running
  /\ \E new \in SUBSET {w \in TaskIds : wtask[w].st = "unused"} :
       /\ Cardinality(new) = max_workers
       /\ \A w \in new, x \in TaskIds : (wtask[x].st = "unused" /\ x < w) => x \in new
       /\ workers' = new
       /\ wtask' = [w \in TaskIds |->
                      IF w \in new THEN [NoWorker EXCEPT !.st = "polling"] ELSE wtask[w]]
  /\ is_running' = TRUE
  /\ UNCHANGED <<now, cbVars, pairVars, sessVars, chainVars, jobVars, rbVars, memVars, keyVars, orchVars, floodVars, oaiVars, rlVars, scmVars, preloaded, redis_on, fallback_on, audit,
                 redis_store, memory_cache, request_queue, fut, synth, stopper,
                 stats, hist>>

\* _worker: queue.get() hands a job to a waiting worker, which starts
\* _process_tts_request
WorkerTake(w) ==
  /\ wtask[w].st = "polling"
  /\ ~wtask[w].cancel
  /\ request_queue # <<>>
  /\ wtask' = [wtask EXCEPT ![w].st = "busy", ![w].job = Head(request_queue),
                            ![w].attempt = 0]
  /\ request_queue' = Tail(request_queue)
  /\ hist' = [hist EXCEPT !.taken[Head(request_queue)] = @ + 1]
  /\ UNCHANGED <<now, cbVars, pairVars, sessVars, chainVars, jobVars, rbVars, memVars, keyVars, orchVars, floodVars, oaiVars, rlVars, scmVars, preloaded, redis_on, fallback_on, audit,
                 redis_store, memory_cache, is_running, workers, fut, synth,
                 stopper, stats>>

\* _worker: one attempt of _process_tts_request, then set_result or
\* set_exception and task_done()
WorkerAttempt(w, o, audio, redis_ok) ==
  /\ wtask[w].st = "busy"
  /\ ~wtask[w].cancel
  /\ LET j   == wtask[w].job
         key == KeyOf(IF j \in Synths THEN synth[j].text ELSE "t1")
         put == AudioCacheSet(key, audio, redis_ok)
         res == IF o = "200" /\ put.raised
                  THEN "raise" ELSE AfterAttempt(wtask[w].attempt, o)
         why == IF o = "200" THEN "cache" ELSE Raised(o)
     IN  CASE res = "return" ->
                /\ redis_store' = put.redis
                /\ memory_cache' = put.mem
                /\ fut' = [fut EXCEPT ![j].st = "result", ![j].audio = audio]
                /\ wtask' = [wtask EXCEPT ![w] = [NoWorker EXCEPT !.st = "polling"]]
                /\ hist' = [hist EXCEPT !.served_at[key] = now,
                                      !.fulfilled[j] = @ + 1]
           [] res = "retry" ->
                /\ wtask' = [wtask EXCEPT ![w].attempt = @ + 1]
                /\ UNCHANGED hist
                /\ UNCHANGED <<redis_store, memory_cache, fut>>
           [] OTHER ->
                /\ fut' = [fut EXCEPT ![j].st = "exception",
                                      ![j].err = Kept(why, "none")]
                /\ wtask' = [wtask EXCEPT ![w] = [NoWorker EXCEPT !.st = "polling"]]
                /\ hist' = [hist EXCEPT !.fulfilled[j] = @ + 1]
                /\ UNCHANGED <<redis_store, memory_cache>>
  /\ UNCHANGED <<now, cbVars, pairVars, sessVars, chainVars, jobVars, rbVars, memVars, keyVars, orchVars, floodVars, oaiVars, rlVars, scmVars, preloaded, redis_on, fallback_on, audit,
                 is_running, workers, request_queue, synth, stopper, stats>>

\* stop_workers() up to `await asyncio.gather(*self.workers, ...)`
StopBegin ==
  /\ stopper.pc \in {"idle", "returned"}
  /\ is_running' = FALSE
  /\ wtask' = [w \in TaskIds |->
                 IF w \in workers /\ wtask[w].st \in {"polling", "busy"}
                   THEN [wtask[w] EXCEPT !.cancel = TRUE] ELSE wtask[w]]
  /\ stopper' = [pc |-> "waiting", tasks |-> workers, was_running |-> is_running]
  /\ UNCHANGED <<now, cbVars, pairVars, sessVars, chainVars, jobVars, rbVars, memVars, keyVars, orchVars, floodVars, oaiVars, rlVars, scmVars, preloaded, redis_on, fallback_on, audit,
                 redis_store, memory_cache, workers, request_queue, fut, synth,
                 stats, hist>>

\* _worker: CancelledError is thrown into the task at its await; inside
\* _process_tts_request no handler catches it, `finally` runs task_done(),
\* `except asyncio.CancelledError: break` ends the loop
WorkerCancelled(w) ==
  /\ wtask[w].cancel
  /\ wtask[w].st \in {"polling", "busy"}
  /\ wtask' = [wtask EXCEPT ![w] = [NoWorker EXCEPT !.st = "ended"]]
  /\ UNCHANGED <<now, cbVars, pairVars, sessVars, chainVars, jobVars, rbVars, memVars, keyVars, orchVars, floodVars, oaiVars, rlVars, scmVars, preloaded, redis_on, fallback_on, audit,
                 redis_store, memory_cache, is_running, workers, request_queue,
                 fut, synth, stopper, stats, hist>>

\* StopEnd without waiting for the cancelled tasks
StopEnd_nowait ==
  /\ stopper.pc = "waiting"
  /\ stopper' = [stopper EXCEPT !.pc = "returned"]
  /\ UNCHANGED <<now, cbVars, pairVars, sessVars, chainVars, jobVars, rbVars, memVars, keyVars, orchVars, floodVars, oaiVars, rlVars, scmVars, preloaded, redis_on, fallback_on, audit,
                 redis_store, memory_cache, is_running, workers, wtask,
                 request_queue, fut, synth, stats, hist>>

\* stop_workers(): gather() returns, the connector is closed, it returns
StopEnd ==
  /\ stopper.pc = "waiting"
  /\ \A w \in stopper.tasks : wtask[w].st = "ended"
  /\ stopper' = [stopper EXCEPT !.pc = "returned"]
  /\ UNCHANGED <<now, cbVars, pairVars, sessVars, chainVars, jobVars, rbVars, memVars, keyVars, orchVars, floodVars, oaiVars, rlVars, scmVars, preloaded, redis_on, fallback_on, audit,
                 redis_store, memory_cache, is_running, workers, wtask,
                 request_queue, fut, synth, stats, hist>>

TickTTS ==
  /\ now + TimeStep <= TTSMaxTime * TimeStep
  /\ now' = now + TimeStep
  /\ UNCHANGED <<cbVars, pairVars, sessVars, chainVars, jobVars, rbVars, memVars, keyVars, orchVars, floodVars, oaiVars, ttsVars, rlVars, scmVars>>

\* the remote store answers or raises; without a redis_client it is not asked
RedisAnswers == IF redis_on THEN BOOLEAN ELSE {FALSE}

\* the body read from a response: audio with status 200
Bodies(o) == IF o = "200" THEN PrimaryAudio ELSE {NoAudio}

NextTTS ==
  \/ \E c \in Synths, t \in Texts, ok \in RedisAnswers : SynthStart(c, t, ok)
  \/ \E c \in Synths, o \in Outcomes : \E a \in Bodies(o), ok \in RedisAnswers :
       SynthAttempt(c, o, a, ok)
  \/ \E c \in Synths : SynthFuture(c)
  \/ \E c \in Synths, ok \in BOOLEAN, a \in FallbackAudio : SynthFallback(c, ok, a)
  \/ StartWorkers
  \/ \E w \in TaskIds : WorkerTake(w)
  \/ \E w \in TaskIds, o \in Outcomes : \E a \in Bodies(o), ok \in RedisAnswers :
       WorkerAttempt(w, o, a, ok)
  \/ StopBegin
  \/ \E w \in TaskIds : WorkerCancelled(w)
  \/ StopEnd
  \/ TickTTS


\* ======================================================= the rate limiter
\* In SpecRL the clock `now` counts steps of 1/Res second.
Checkers == 1..NCheckers

\* redis GET of a key that does not exist
Nil == -1

\* the (bucket_size, refill_rate) pairs _get_limits may return for the
\* bucket; refill_rate is num/den tokens per second
Limits == {[size |-> 1, num |-> 2, den |-> 1], [size |-> 4, num |-> 1, den |-> 2]}

\* int(x) of Python for x = a/b, b > 0: truncation toward zero
TruncDiv(a, b) == IF a >= 0 THEN a \div b ELSE -((-a) \div b)

\* int(time.time())
WholeSeconds(t) == t \div Res

\* ttl = int((bucket_size / refill_rate) * 2), in seconds
Ttl(lim) == (2 * lim.size * lim.den) \div lim.num

\* what GET returns for a key written with SETEX: nothing once it has expired
Visible(val, exp, t) == IF val # Nil /\ t < exp THEN val ELSE Nil

\* tokens_to_add = int(elapsed * refill_rate)
TokensToAdd(elapsed, lim) == TruncDiv(elapsed * lim.num, lim.den)

\* lines 70-77 of check(): the defaults for missing keys and the refill
Refill(got_tokens, got_refill, lim, sec) ==
  LET tokens      == IF got_tokens # Nil THEN got_tokens ELSE lim.size
      last_refill == IF got_refill # Nil THEN got_refill ELSE sec
      add         == TokensToAdd(sec - last_refill, lim)
  IN  IF add > 0
        THEN [tokens |-> Min(tokens + add, lim.size), last_refill |-> sec]
        ELSE [tokens |-> tokens, last_refill |-> last_refill]

IdleCheck == [pc |-> "idle", lim |-> CHOOSE l \in Limits : TRUE, sec |-> 0,
              tokens |-> Nil, last_refill |-> Nil, admit |-> FALSE,
              clean |-> TRUE]

Checking == {c \in Checkers : chk[c].pc # "idle"}

InitRL ==
  /\ bucket = [tokens |-> Nil, tokens_exp |-> 0, refill |-> Nil, refill_exp |-> 0,
               cap |-> 0]
  /\ chk = [c \in Checkers |-> IdleCheck]
  /\ rl_hist = [started |-> 0, finished |-> 0, admitted |-> 0, lims |-> {},
                seq |-> TRUE, t0 |-> -1, same |-> TRUE, last_end |-> -1,
                last_out |-> "none", waited |-> "none"]

\* the call that comes 1/refill_rate seconds or more after a burst of
\* bucket_size + 1 sequential calls made at one instant
IsWaitedCall(lim) ==
  /\ rl_hist.seq /\ Checking = {} /\ rl_hist.same
  /\ rl_hist.lims = {lim}
  /\ rl_hist.finished = lim.size + 1
  /\ (now - rl_hist.last_end) * lim.num >= Res * lim.den

\* check() up to the first GET: connect(), _get_limits(), now, the keys, ttl
CheckStart(c, lim) ==
  /\ chk[c].pc = "idle"
  /\ rl_hist.started < MaxChecks
  /\ chk' = [d \in Checkers |->
               IF d = c
                 THEN [IdleCheck EXCEPT !.pc = "get_tokens", !.lim = lim,
                                        !.sec = WholeSeconds(now),
                                        !.clean = (Checking = {})]
                 ELSE [chk[d] EXCEPT !.clean = @ /\ chk[d].pc = "idle"]]
  /\ rl_hist' = [rl_hist EXCEPT !.started = @ + 1,
                                !.lims = @ \cup {lim},
                                !.seq = @ /\ Checking = {},
                                !.t0 = IF rl_hist.started = 0 THEN now ELSE @,
                                !.waited = IF IsWaitedCall(lim) /\ @ = "none"
                                             THEN "pending" ELSE @]
  /\ UNCHANGED <<now, cbVars, pairVars, sessVars, chainVars, jobVars, rbVars, memVars, keyVars, orchVars, floodVars, oaiVars, ttsVars, scmVars, bucket>>

\* tokens = await self.redis.get(tokens_key)
CheckGetTokens(c) ==
  /\ chk[c].pc = "get_tokens"
  /\ chk' = [chk EXCEPT ![c].pc = "get_refill",
                        ![c].tokens = Visible(bucket.tokens, bucket.tokens_exp, now)]
  /\ UNCHANGED <<now, cbVars, pairVars, sessVars, chainVars, jobVars, rbVars, memVars, keyVars, orchVars, floodVars, oaiVars, ttsVars, scmVars, bucket, rl_hist>>

\* CheckGetRefill with the timestamp moved to `now` on every call
CheckGetRefill_stamp(c) ==
  /\ chk[c].pc = "get_refill"
  /\ LET got == Visible(bucket.refill, bucket.refill_exp, now)
         r   == Refill(chk[c].tokens, got, chk[c].lim, chk[c].sec)
     IN  chk' = [chk EXCEPT ![c].pc = "set_tokens",
                            ![c].admit = (r.tokens > 0),
                            ![c].tokens = IF r.tokens > 0 THEN r.tokens - 1 ELSE r.tokens,
                            ![c].last_refill = chk[c].sec]
  /\ UNCHANGED <<now, cbVars, pairVars, sessVars, chainVars, jobVars, rbVars, memVars, keyVars, orchVars, floodVars, oaiVars, ttsVars, scmVars, bucket, rl_hist>>

\* last_refill = await self.redis.get(refill_key), then lines 70-80
CheckGetRefill(c) ==
  /\ chk[c].pc = "get_refill"
  /\ LET got == Visible(bucket.refill, bucket.refill_exp, now)
         r   == Refill(chk[c].tokens, got, chk[c].lim, chk[c].sec)
     IN  chk' = [chk EXCEPT ![c].pc = "set_tokens",
                            ![c].admit = (r.tokens > 0),
                            ![c].tokens = IF r.tokens > 0 THEN r.tokens - 1 ELSE r.tokens,
                            ![c].last_refill = r.last_refill]
  /\ UNCHANGED <<now, cbVars, pairVars, sessVars, chainVars, jobVars, rbVars, memVars, keyVars, orchVars, floodVars, oaiVars, ttsVars, scmVars, bucket, rl_hist>>

\* await self.redis.setex(tokens_key, ttl, tokens), on either branch
CheckSetTokens(c) ==
  /\ chk[c].pc = "set_tokens"
  /\ bucket' = [bucket EXCEPT !.tokens = chk[c].tokens,
                              !.tokens_exp = now + Ttl(chk[c].lim) * Res,
                              !.cap = chk[c].lim.size]
  /\ chk' = [chk EXCEPT ![c].pc = "set_refill"]
  /\ UNCHANGED <<now, cbVars, pairVars, sessVars, chainVars, jobVars, rbVars, memVars, keyVars, orchVars, floodVars, oaiVars, ttsVars, scmVars, rl_hist>>

\* await self.redis.setex(refill_key, ttl, last_refill), then the return or
\* the raise of RateLimitExceeded
CheckSetRefill(c) ==
  /\ chk[c].pc = "set_refill"
  /\ bucket' = [bucket EXCEPT !.refill = chk[c].last_refill,
                              !.refill_exp = now + Ttl(chk[c].lim) * Res]
  /\ chk' = [chk EXCEPT ![c] = IdleCheck]
  /\ rl_hist' = [rl_hist EXCEPT
                   !.finished = @ + 1,
                   !.admitted = IF chk[c].admit THEN @ + 1 ELSE @,
                   !.same = @ /\ now = rl_hist.t0,
                   !.last_end = now,
                   !.last_out = IF chk[c].admit THEN "ok" ELSE "rej",
                   !.waited = IF @ # "pending" THEN @
                              ELSE IF ~chk[c].clean THEN "void"
                              ELSE IF chk[c].admit THEN "ok" ELSE "rej"]
  /\ UNCHANGED <<now, cbVars, pairVars, sessVars, chainVars, jobVars, rbVars, memVars, keyVars, orchVars, floodVars, oaiVars, ttsVars, scmVars>>

\* a key of the bucket expires at the next clock step
ExpiresAt(t) ==
  \/ (bucket.tokens # Nil /\ now < bucket.tokens_exp /\ t >= bucket.tokens_exp)
  \/ (bucket.refill # Nil /\ now < bucket.refill_exp /\ t >= bucket.refill_exp)

\* time.time() advances; a call in flight while a key expires is marked
TickRL ==
  /\ now < RLMaxTime
  /\ now' = now + 1
  /\ chk' = [c \in Checkers |->
               [chk[c] EXCEPT !.clean = @ /\ ~(chk[c].pc # "idle" /\ ExpiresAt(now + 1))]]
  /\ UNCHANGED <<cbVars, pairVars, sessVars, chainVars, jobVars, rbVars, memVars, keyVars, orchVars, floodVars, oaiVars, ttsVars, scmVars, bucket, rl_hist>>

NextRL ==
  \/ \E c \in Checkers, lim \in Limits : CheckStart(c, lim)
  \/ \E c \in Checkers : CheckGetTokens(c)
  \/ \E c \in Checkers : CheckGetRefill(c)
  \/ \E c \in Checkers : CheckSetTokens(c)
  \/ \E c \in Checkers : CheckSetRefill(c)
  \/ TickRL


\* ====================================================== breaker callers
IdleCall == [pc |-> "idle", started |-> FALSE, trial |-> FALSE]

InFlight == {c \in Callers : call[c].pc = "running"}

InitCB ==
  /\ cb = NewBreaker
  /\ call = [c \in Callers |-> IdleCall]
  /\ consec = 0
  /\ lastFailAt = 0
  /\ overlap = FALSE

\* call() up to `await coro`: the gate either raises or starts the operation
CallStart(c) ==
  /\ call[c].pc # "running"
  /\ IF CBRejects(cb, now)
       THEN call' = [call EXCEPT ![c] = [pc |-> "rejected", started |-> FALSE,
                                         trial |-> FALSE]]
       ELSE call' = [call EXCEPT ![c] = [pc |-> "running", started |-> TRUE,
                                         trial |-> cb.open]]
  /\ overlap' = (overlap \/ InFlight # {})
  /\ UNCHANGED <<now, cb, consec, lastFailAt>>
  /\ UNCHANGED <<orchVars, pairVars, sessVars, chainVars, jobVars, rbVars, memVars, keyVars, floodVars, oaiVars, ttsVars, rlVars, scmVars>>

\* the operation returns: `fail_count = 0; open = False; return result`
CallSucceed(c) ==
  /\ call[c].pc = "running"
  /\ cb' = CBOnSuccess(cb)
  /\ call' = [call EXCEPT ![c].pc = "returned"]
  /\ consec' = 0
  /\ UNCHANGED <<now, lastFailAt, overlap>>
  /\ UNCHANGED <<orchVars, pairVars, sessVars, chainVars, jobVars, rbVars, memVars, keyVars, floodVars, oaiVars, ttsVars, rlVars, scmVars>>

\* the operation raises an Exception (asyncio.TimeoutError included)
CallFail(c) ==
  /\ call[c].pc = "running"
  /\ cb.fail_count < MaxFailCount
  /\ cb' = CBOnFailure(cb, now)
  /\ call' = [call EXCEPT ![c].pc = "failed"]
  /\ consec' = consec + 1
  /\ lastFailAt' = now
  /\ UNCHANGED <<now, overlap>>
  /\ UNCHANGED <<orchVars, pairVars, sessVars, chainVars, jobVars, rbVars, memVars, keyVars, floodVars, oaiVars, ttsVars, rlVars, scmVars>>

\* CallCancel with cancellation taken for a failure of the operation
CallCancel_counted(c) ==
  /\ call[c].pc = "running"
  /\ cb.fail_count < MaxFailCount
  /\ cb' = CBOnFailure(cb, now)
  /\ call' = [call EXCEPT ![c].pc = "cancelled"]
  /\ UNCHANGED <<now, consec, lastFailAt, overlap>>
  /\ UNCHANGED <<orchVars, pairVars, sessVars, chainVars, jobVars, rbVars, memVars, keyVars, floodVars, oaiVars, ttsVars, rlVars, scmVars>>

\* the task is cancelled while awaiting the operation: CancelledError is a
\* BaseException, so neither branch of call() runs
CallCancel(c) ==
  /\ call[c].pc = "running"
  /\ call' = [call EXCEPT ![c].pc = "cancelled"]
  /\ UNCHANGED <<now, cb, consec, lastFailAt, overlap>>
  /\ UNCHANGED <<orchVars, pairVars, sessVars, chainVars, jobVars, rbVars, memVars, keyVars, floodVars, oaiVars, ttsVars, rlVars, scmVars>>

Tick ==
  /\ now < MaxTime
  /\ now' = now + 1
  /\ UNCHANGED <<cbVars, pairVars, sessVars, chainVars, jobVars, rbVars, memVars, keyVars, orchVars, floodVars, oaiVars, ttsVars, rlVars, scmVars>>

NextCB ==
  \/ \E c \in Callers : CallStart(c)
  \/ \E c \in Callers : CallSucceed(c)
  \/ \E c \in Callers : CallFail(c)
  \/ \E c \in Callers : CallCancel(c)
  \/ Tick

\* =================================================== InMemoryFloodControl

Users == 1..NUsers

\* InMemoryFloodControl(rate_limit, interval_sec, max_size), built with
\* cachetools.TTLCache or, where the import fails, with dict
FloodConfigs == [rate_limit : {1, 2}, interval_sec : {1, 2}, max_size : {1, 2},
                 ttlcache : BOOLEAN]

NoTimes == [held |-> FALSE, ts |-> <<>>, written |-> 0]

\* TTLCache(ttl = interval_sec * 2): an item is gone once its ttl has passed
\* since it was last set; a dict keeps every item
Unexpired(cfg, item, t) ==
  item.held /\ (cfg.ttlcache => t < item.written + cfg.interval_sec * 2)

\* self._cache.get(user_id, [])
CachedTimes(cfg, cache, u, t) ==
  IF Unexpired(cfg, cache[u], t) THEN cache[u].ts ELSE <<>>

\* self._cache[user_id] = timestamps: a TTLCache first drops the expired
\* items and then, for a new key in a full cache, the item set longest ago
CacheStore(cfg, cache, order, u, ts, t) ==
  LET live   == {v \in Users : Unexpired(cfg, cache[v], t)}
      order1 == SelectSeq(order, LAMBDA v : v \in live)
      full   == cfg.ttlcache /\ u \notin live /\ Cardinality(live) + 1 > cfg.max_size
      out    == IF full /\ order1 # <<>> THEN {Head(order1)} ELSE {}
      order2 == SelectSeq(order1, LAMBDA v : v \notin out /\ v # u)
  IN  [cache |-> [v \in Users |->
                    IF v = u THEN [held |-> TRUE, ts |-> ts, written |-> t]
                    ELSE IF cfg.ttlcache /\ (v \notin live \/ v \in out)
                      THEN NoTimes ELSE cache[v]],
       order |-> Append(order2, u)]

InitFlood ==
  /\ flood \in [cfg : FloodConfigs, cache : {[u \in Users |-> NoTimes]},
                order : {<<>>},
                last : {[user |-> 0, verdict |-> FALSE, at |-> 0]}]
  /\ fl_hist = [calls |-> [u \in Users |-> <<>>], n |-> 0]

\* InMemoryFloodControl(rate_limit=1, interval_sec=1, max_size=1) on the
\* dict build, never called
InitFloodIdle ==
  /\ flood = [cfg |-> [rate_limit |-> 1, interval_sec |-> 1, max_size |-> 1,
                       ttlcache |-> FALSE],
              cache |-> [u \in Users |-> NoTimes], order |-> <<>>,
              last |-> [user |-> 0, verdict |-> FALSE, at |-> 0]]
  /\ fl_hist = [calls |-> [u \in Users |-> <<>>], n |-> 0]

\* is_flooding(user_id) / is_limited(user_id): nothing awaits while the lock
\* is held, so the lock is free at every call and the body is one step
FloodCall(u) ==
  /\ fl_hist.n < MaxFloodCalls
  /\ LET cfg  == flood.cfg
         got  == CachedTimes(cfg, flood.cache, u, now)
         kept == SelectSeq(got, LAMBDA t : now - t < cfg.interval_sec)
         ts   == Append(kept, now)
         put  == CacheStore(cfg, flood.cache, flood.order, u, ts, now)
     IN  flood' = [flood EXCEPT !.cache = put.cache, !.order = put.order,
                     !.last = [user |-> u, verdict |-> Len(ts) > cfg.rate_limit,
                               at |-> now]]
  /\ fl_hist' = [fl_hist EXCEPT !.calls[u] = Append(@, now), !.n = @ + 1]
  /\ UNCHANGED <<now, cbVars, pairVars, sessVars, chainVars, jobVars, rbVars, memVars, keyVars, orchVars, ttsVars, rlVars, scmVars, oaiVars>>

\* time.monotonic() advances
TickFlood ==
  /\ now < FloodMaxTime
  /\ now' = now + 1
  /\ UNCHANGED <<cbVars, pairVars, sessVars, chainVars, jobVars, rbVars, memVars, keyVars, orchVars, ttsVars, rlVars, scmVars, floodVars, oaiVars>>

NextFlood ==
  \/ \E u \in Users : FloodCall(u)
  \/ TickFlood

\* ========================================================= OpenAIProvider

OaiCallers == 1..NOai

\* rate_limiter.check(request): no limiter given, or it passes or raises
LimiterAnswers == {"none", "pass", "reject"}

IdleGenerate == [pc |-> "idle", attempt |-> 0, posts |-> 0, out |-> "none",
                 transient_only |-> TRUE]

\* logger is a logging.Logger: logger.error/info called with keyword
\* arguments (status=..., latency_ms=...) raises TypeError when the level is
\* enabled, and does nothing when logging of that level is disabled
InitOai ==
  oai \in [log_raises : BOOLEAN, call : {[c \in OaiCallers |-> IdleGenerate]}]

\* OpenAIProvider(...), never called
InitOaiIdle ==
  oai = [log_raises |-> TRUE, call |-> [c \in OaiCallers |-> IdleGenerate]]

\* the `except Exception` block of the retry loop
OaiExcept(me, code) ==
  IF me.attempt + 1 >= openai_max_retries
    THEN [me EXCEPT !.pc = "ended", !.out = code]
    ELSE [me EXCEPT !.attempt = @ + 1]

\* `while attempt < self.max_retries` left without a return: the function
\* ends and its caller gets None
OaiContinue(me) ==
  IF me.attempt + 1 < openai_max_retries
    THEN [me EXCEPT !.attempt = @ + 1]
    ELSE [me EXCEPT !.attempt = @ + 1, !.pc = "ended", !.out = "None"]

\* generate() up to the retry loop
OaiStart(c, valid, has_key, lim) ==
  /\ oai.call[c].pc = "idle"
  /\ oai' = [oai EXCEPT !.call[c] =
       IF ~valid THEN [@ EXCEPT !.pc = "ended", !.out = "ValueError"]
       ELSE IF ~has_key THEN [@ EXCEPT !.pc = "ended", !.out = "NO_API_KEY"]
       ELSE IF lim = "reject"
         THEN [@ EXCEPT !.pc = "ended", !.out = "RateLimitExceeded"]
         ELSE [@ EXCEPT !.pc = "loop"]]
  /\ UNCHANGED <<now, cbVars, pairVars, sessVars, chainVars, jobVars, rbVars, memVars, keyVars, orchVars, ttsVars, rlVars, scmVars, floodVars>>

\* one pass of the retry loop: session.post() answers with a status or raises
OaiAttempt(c, o) ==
  /\ oai.call[c].pc = "loop"
  /\ LET me == [oai.call[c] EXCEPT
                  !.posts = @ + 1,
                  !.transient_only = @ /\ o \in {"429", "5xx"}]
     IN  oai' = [oai EXCEPT !.call[c] =
           CASE o = "timeout"      -> OaiExcept(me, "TIMEOUT")
             [] o = "client_error" -> OaiExcept(me, "NETWORK_ERROR")
             [] o = "exc"          -> OaiExcept(me, "API_ERROR")
             [] oai.log_raises     -> OaiExcept(me, "API_ERROR")
             [] o = "200"          -> [me EXCEPT !.pc = "ended", !.out = "content"]
             [] o \in {"429", "5xx"} -> OaiContinue(me)
             [] OTHER              -> [me EXCEPT !.pc = "ended", !.out = "HTTP_4xx"]]
  /\ UNCHANGED <<now, cbVars, pairVars, sessVars, chainVars, jobVars, rbVars, memVars, keyVars, orchVars, ttsVars, rlVars, scmVars, floodVars>>

NextOpenAI ==
  \/ \E c \in OaiCallers, valid \in BOOLEAN, has_key \in BOOLEAN,
        lim \in LimiterAnswers : OaiStart(c, valid, has_key, lim)
  \/ \E c \in OaiCallers, o \in Outcomes : OaiAttempt(c, o)

\* ------------------------------------------- the refill over a run of calls
\* In SpecRefill the clock `now` counts whole seconds, below every ttl.
\* the limits of the bucket: large enough never to fill up within the run
SlowLimits == {[size |-> 8, num |-> 1, den |-> 2], [size |-> 8, num |-> 2, den |-> 3],
               [size |-> 8, num |-> 1, den |-> 1]}

\* a bucket left empty by a check() at second 0
EmptiedBucket(lim) ==
  [lim |-> lim, tokens |-> 0, refill |-> 0, credited |-> 0, at |-> 0,
   filled |-> FALSE, admitted |-> 0]

InitRefill == rb \in {EmptiedBucket(lim) : lim \in SlowLimits}

InitRefillIdle == rb = EmptiedBucket(CHOOSE lim \in SlowLimits : TRUE)

\* check() from its first line to its return or raise, with no other call in
\* flight: both GETs, the refill, the decrement and both SETEX
RefillCheck ==
  /\ rb.at < now
  /\ LET r   == Refill(rb.tokens, rb.refill, rb.lim, now)
         add == TokensToAdd(now - rb.refill, rb.lim)
     IN  rb' = [rb EXCEPT
                  !.tokens = IF r.tokens > 0 THEN r.tokens - 1 ELSE r.tokens,
                  !.refill = r.last_refill,
                  !.credited = IF add > 0 THEN @ + add ELSE @,
                  !.filled = @ \/ (add > 0 /\ rb.tokens + add >= rb.lim.size),
                  !.admitted = IF r.tokens > 0 THEN @ + 1 ELSE @,
                  !.at = now]
  /\ UNCHANGED <<now, cbVars, pairVars, sessVars, chainVars, jobVars, orchVars, ttsVars, rlVars, scmVars, floodVars,
                 oaiVars, keyVars, memVars>>

TickRefill ==
  /\ now < RefillMaxTime
  /\ now' = now + 1
  /\ UNCHANGED <<cbVars, pairVars, sessVars, chainVars, jobVars, orchVars, ttsVars, rlVars, scmVars, floodVars,
                 oaiVars, keyVars, memVars, rbVars>>

NextRefill == RefillCheck \/ TickRefill

\* ------------------------------------- _process_tts_request: the sleeps
TtsJobs == 1..NJobs

\* the Retry-After header of a response, in seconds; 0 when it has none
RetryAfterHints == {0, 1, 7}

RECURSIVE Pow2(_)
Pow2(k) == IF k = 0 THEN 1 ELSE 2 * Pow2(k - 1)

\* wait_time = 2 ** attempt, on every branch
wait_time(attempt) == Pow2(attempt)

IdleJob == [pc |-> "post", attempt |-> 0, status |-> "none", hint |-> 0,
            slept |-> 0]

InitJobs == job = [j \in TtsJobs |-> IdleJob]

\* one pass of the retry loop up to its sleep, return or raise: session.post
\* answers with status o (and a Retry-After header) or raises
JobPost(j, o, hint) ==
  /\ job[j].pc = "post"
  /\ LET me == [job[j] EXCEPT !.status = o, !.hint = hint, !.slept = 0]
     IN  job' = [job EXCEPT ![j] =
           CASE o = "200" -> [me EXCEPT !.pc = "returned"]
             [] o \in {"429", "5xx"} ->
                  [me EXCEPT !.pc = "sleep", !.slept = wait_time(me.attempt)]
             [] o \in {"timeout", "client_error"} ->
                  IF me.attempt < max_retries - 1
                    THEN [me EXCEPT !.pc = "sleep",
                                    !.slept = wait_time(me.attempt)]
                    ELSE [me EXCEPT !.pc = "raised"]
             [] OTHER -> [me EXCEPT !.pc = "raised"]]
  /\ UNCHANGED <<now, cbVars, pairVars, sessVars, chainVars, orchVars, ttsVars, rlVars, scmVars, floodVars,
                 oaiVars, keyVars, memVars, rbVars>>

\* asyncio.sleep(wait_time) returns and `continue` starts the next pass, or
\* ends the loop: raise ElevenLabsError("All retry attempts failed")
JobWake(j) ==
  /\ job[j].pc = "sleep"
  /\ job' = [job EXCEPT ![j].attempt = @ + 1,
                        ![j].pc = IF job[j].attempt + 1 < max_retries
                                    THEN "post" ELSE "raised"]
  /\ UNCHANGED <<now, cbVars, pairVars, sessVars, chainVars, orchVars, ttsVars, rlVars, scmVars, floodVars,
                 oaiVars, keyVars, memVars, rbVars>>

NextBackoff ==
  \/ \E j \in TtsJobs, o \in Outcomes : \E hint \in RetryAfterHints :
       JobPost(j, o, IF o = "429" THEN hint ELSE 0)
  \/ \E j \in TtsJobs : JobWake(j)

\* ============================================== AudioCache: the cache key
\* text as a sequence of characters; "*" stands for an emoji
RawTexts == {<<"a">>, <<"a", "*">>, <<"b">>}

\* _preprocess_text: characters outside the allowed class are removed (then
\* the replacements and the sentence split, which leave these texts alone)
_preprocess_text(text) == SelectSeq(text, LAMBDA ch : ch # "*")

AlenaVoiceId == "pNInz6obpgDQGcFmaJgB"

BellaVoiceId == "EXAVITQu4vr4xnSDxMaL"

VoiceArgs == {"alena", "EXAVITQu4vr4xnSDxMaL", "bella"}

\* _resolve_voice_id: "alena", an id passed directly (longer than 10
\* characters), or FALLBACK_VOICES[0]
_resolve_voice_id(voice) ==
  IF voice = "alena" THEN AlenaVoiceId
  ELSE IF Len(voice) > 10 THEN voice ELSE BellaVoiceId

\* VoiceManager.ALENA_VOICE_CONFIG["settings"], in hundredths
AlenaSettings == [stability |-> 65, similarity_boost |-> 75, style |-> 20,
                  use_speaker_boost |-> TRUE]

\* the keyword arguments of synthesize_speech that reach TTSRequest
SynthParams == [model : {"eleven_multilingual_v2", "eleven_turbo_v2"},
                stability : {50, 65}, similarity_boost : {50},
                style : {0}, use_speaker_boost : {TRUE}]

SynthRequests == [text : RawTexts, voice : VoiceArgs, params : SynthParams]

\* _get_cache_key(text, voice_id, settings); the 64 bits kept of the sha256
\* digest are taken as injective
_get_cache_key(text, voice_id, settings) == <<text, voice_id, settings>>

\* the key synthesize_speech and _process_tts_request use for a request
RequestKey(r) ==
  _get_cache_key(_preprocess_text(r.text), _resolve_voice_id(r.voice),
                 AlenaSettings)

\* the payload and URL _process_tts_request posts: what the audio is made for
Payload(r) == [text |-> _preprocess_text(r.text),
               voice_id |-> _resolve_voice_id(r.voice), params |-> r.params]

CacheKeysTTS == {RequestKey(r) : r \in SynthRequests}

NoPayload == [text |-> <<>>, voice_id |-> "none",
              params |-> CHOOSE p \in SynthParams : TRUE]

IdleKeyCall == [pc |-> "idle", req |-> CHOOSE r \in SynthRequests : TRUE,
                cached |-> FALSE, audio |-> NoPayload]

InitKeys ==
  /\ key_cache = [k \in CacheKeysTTS |-> NoPayload]
  /\ key_call = IdleKeyCall

\* synthesize_speech(text, voice, **params) up to the end of cache.get, with
\* a store that answers: a hit is returned, a miss goes on to the provider
KeyLookup(r) ==
  /\ key_call.pc # "processing"
  /\ LET held == key_cache[RequestKey(r)]
     IN  key_call' = IF held # NoPayload
           THEN [pc |-> "returned", req |-> r, cached |-> TRUE, audio |-> held]
           ELSE [pc |-> "processing", req |-> r, cached |-> FALSE,
                 audio |-> NoPayload]
  /\ UNCHANGED <<now, cbVars, pairVars, sessVars, chainVars, jobVars, rbVars, memVars, orchVars, ttsVars, rlVars, scmVars, floodVars,
                 oaiVars, key_cache>>

\* _process_tts_request: status 200, cache.set under the request's key, return
KeyStore ==
  /\ key_call.pc = "processing"
  /\ key_cache' = [key_cache EXCEPT ![RequestKey(key_call.req)] =
                     Payload(key_call.req)]
  /\ key_call' = [key_call EXCEPT !.pc = "returned",
                                  !.audio = Payload(key_call.req)]
  /\ UNCHANGED <<now, cbVars, pairVars, sessVars, chainVars, jobVars, rbVars, memVars, orchVars, ttsVars, rlVars, scmVars, floodVars,
                 oaiVars>>

NextKey ==
  \/ \E r \in SynthRequests : KeyLookup(r)
  \/ KeyStore

\* ================================== AudioCache: the in-process store's cap
MemKeys == 1..(MemCacheSize + 2)

\* the keys set() is called with
HotKeys == {1, 2, MemCacheSize + 1, MemCacheSize + 2}

NoTime == -1

RECURSIVE InOrder(_)
InOrder(n) == IF n = 0 THEN <<>> ELSE Append(InOrder(n - 1), n)

HeldKeys(m) == {m.order[i] : i \in 1..Len(m.order)}

\* min(self._memory_cache.keys(), key=lambda k: self._memory_cache[k][0]):
\* the first key, in the dict's insertion order, whose write time is least
OldestKey(m) ==
  LET i == CHOOSE i \in 1..Len(m.order) :
             /\ \A j \in 1..Len(m.order) : m.time[m.order[i]] <= m.time[m.order[j]]
             /\ \A j \in 1..(i - 1) : m.time[m.order[j]] > m.time[m.order[i]]
  IN  m.order[i]

\* `del self._memory_cache[key]`
MemDelete(m, key) ==
  [order |-> SelectSeq(m.order, LAMBDA k : k # key),
   time  |-> [m.time EXCEPT ![key] = NoTime]]

\* MemorySet removing the newest entry
MemorySet_newest(m, key, t, small) ==
  IF ~small THEN m
  ELSE LET m1 == [order |-> IF key \in HeldKeys(m) THEN m.order
                             ELSE Append(m.order, key),
                  time  |-> [m.time EXCEPT ![key] = t]]
       IN  IF Len(m1.order) > MemCacheSize
             THEN MemDelete(m1, m1.order[Len(m1.order)]) ELSE m1

\* AudioCache.set, its in-process half: the entry is written when the audio
\* is under 1 MiB, and then the oldest entry goes if more than 50 are held
MemorySet(m, key, t, small) ==
  IF ~small THEN m
  ELSE LET m1 == [order |-> IF key \in HeldKeys(m) THEN m.order
                             ELSE Append(m.order, key),
                  time  |-> [m.time EXCEPT ![key] = t]]
       IN  IF Len(m1.order) > MemCacheSize
             THEN MemDelete(m1, OldestKey(m1)) ELSE m1

\* an AudioCache whose in-process store holds 49 or 50 entries, written at
\* time 0, the first two possibly rewritten at time 1
InitMemFull ==
  /\ \E n \in {MemCacheSize - 1, MemCacheSize}, fresh \in SUBSET {1, 2} :
       mem = [order |-> InOrder(n),
              time  |-> [k \in MemKeys |->
                           IF k > n THEN NoTime
                           ELSE IF k \in fresh THEN 1 ELSE 0]]
  /\ mem_last = [key |-> 0, small |-> FALSE]

\* AudioCache(), never written
InitMem ==
  /\ mem = [order |-> <<>>, time |-> [k \in MemKeys |-> NoTime]]
  /\ mem_last = [key |-> 0, small |-> FALSE]

\* AudioCache.set(text, voice_id, settings, audio_data); the write to the
\* remote store, whatever its outcome, leaves the in-process store alone
MemSet(key, small) ==
  /\ mem' = MemorySet(mem, key, now, small)
  /\ mem_last' = [key |-> key, small |-> small]
  /\ UNCHANGED <<now, cbVars, pairVars, sessVars, chainVars, jobVars, rbVars, orchVars, ttsVars, rlVars, scmVars, floodVars,
                 oaiVars, keyVars>>

\* time.time() advances
TickMem ==
  /\ now < MemMaxTime
  /\ now' = now + 1
  /\ UNCHANGED <<cbVars, pairVars, sessVars, chainVars, jobVars, rbVars, orchVars, ttsVars, rlVars, scmVars, floodVars,
                 oaiVars, keyVars, memVars>>

NextMem ==
  \/ \E key \in HotKeys, small \in BOOLEAN : MemSet(key, small)
  \/ TickMem

\* ======================================================= RedisSessionStore
Writers == 1..NWriters

Contexts == {"c1", "c2"}

\* self._storage.get(session_id) of a session that is not stored
NoSession == [kind |-> "none", ctx |-> "None", version |-> 0]

Stored(ctx, version) == [kind |-> "data", ctx |-> ctx, version |-> version]

IdleWriter == [pc |-> "idle", ctx |-> "None", version |-> 0, epoch |-> 0]

InitSessions ==
  /\ session = [data |-> NoSession, epoch |-> 0, deletes |-> 0]
  /\ writer = [w \in Writers |-> IdleWriter]

\* get_with_version(session_id): (None, 0) for a session that is not stored
SessRead(w) ==
  /\ writer[w].pc = "idle"
  /\ writer' = [writer EXCEPT ![w] =
                  [pc |-> "read", ctx |-> session.data.ctx,
                   version |-> session.data.version, epoch |-> session.epoch]]
  /\ UNCHANGED <<now, cbVars, pairVars, orchVars, ttsVars, rlVars, scmVars, floodVars,
                 oaiVars, keyVars, memVars, rbVars, jobVars, chainVars,
                 session>>

\* set_with_version(session_id, ctx, version) with the version read before:
\* nothing awaits inside, the test and the write are one step
SessWrite(w, ctx) ==
  /\ writer[w].pc = "read"
  /\ LET current_version == IF session.data.kind = "data"
                              THEN session.data.version ELSE 0
     IN  IF current_version # writer[w].version
           THEN /\ writer' = [writer EXCEPT ![w].pc = "conflict"]
                /\ UNCHANGED session
           ELSE /\ session' = [session EXCEPT
                                 !.data = Stored(ctx, writer[w].version + 1),
                                 !.epoch = @ + 1]
                /\ writer' = [writer EXCEPT ![w].pc = "stored", ![w].ctx = ctx]
  /\ UNCHANGED <<now, cbVars, pairVars, orchVars, ttsVars, rlVars, scmVars, floodVars,
                 oaiVars, keyVars, memVars, rbVars, jobVars, chainVars>>

\* delete(session_id)
SessDelete ==
  /\ session.deletes < MaxDeletes
  /\ session' = IF session.data.kind = "data"
                  THEN [data |-> NoSession, epoch |-> session.epoch + 1,
                        deletes |-> session.deletes + 1]
                  ELSE [session EXCEPT !.deletes = @ + 1]
  /\ UNCHANGED <<now, cbVars, pairVars, orchVars, ttsVars, rlVars, scmVars, floodVars,
                 oaiVars, keyVars, memVars, rbVars, jobVars, chainVars,
                 writer>>

NextSession ==
  \/ \E w \in Writers : SessRead(w)
  \/ \E w \in Writers, ctx \in Contexts : SessWrite(w, ctx)
  \/ SessDelete

\* ============================= AsyncRedisFloodControl beside its fallback
\* utils/antiflood.py and bot/middleware/antiflood.py
FloodModules == {"utils", "middleware"}

PairConfigs == [rate_limit : {1, 2}, interval_sec : {1, 2}]

\* LUA_SCRIPT on the sorted set of one user: ZREMRANGEBYSCORE -inf..now-window,
\* ZADD with score now and member tostring(now), EXPIRE, ZCARD and the
\* comparison with the limit, which is `>=` in utils and `>` in middleware
LuaScript(zset, t, window, limit, module) ==
  LET kept  == {x \in zset : x > t - window} \cup {t}
      count == Cardinality(kept)
  IN  [zset   |-> kept,
       result |-> IF module = "utils" THEN count >= limit ELSE count > limit]

\* the key after EXPIRE key window: gone once window seconds have passed
LiveSet(zset, exp, t) == IF t < exp THEN zset ELSE {}

\* InMemoryFloodControl.is_limited / is_flooding on the list of one user
MemoryVerdict(ts, t, window, limit) ==
  LET timestamps == Append(SelectSeq(ts, LAMBDA x : t - x < window), t)
  IN  [ts |-> timestamps, result |-> Len(timestamps) > limit]

NewPair(module, cfg) ==
  [module |-> module, cfg |-> cfg, zset |-> {}, exp |-> 0, ts |-> <<>>,
   calls |-> 0, redis_verdict |-> FALSE, memory_verdict |-> FALSE]

InitPair == pair \in {NewPair(m, cfg) : m \in FloodModules, cfg \in PairConfigs}

InitPairIdle ==
  pair = NewPair("utils", [rate_limit |-> 1, interval_sec |-> 1])

\* one request of the user, stamped now, given to the Redis control with
\* Redis answering and to an InMemoryFloodControl of the same limits
PairRequest ==
  /\ pair.calls < MaxPairCalls
  /\ LET r == LuaScript(LiveSet(pair.zset, pair.exp, now), now,
                        pair.cfg.interval_sec, pair.cfg.rate_limit, pair.module)
         m == MemoryVerdict(pair.ts, now, pair.cfg.interval_sec,
                            pair.cfg.rate_limit)
     IN  pair' = [pair EXCEPT !.zset = r.zset,
                              !.exp = now + pair.cfg.interval_sec,
                              !.ts = m.ts, !.calls = @ + 1,
                              !.redis_verdict = r.result,
                              !.memory_verdict = m.result]
  /\ UNCHANGED <<now, cbVars, orchVars, ttsVars, rlVars, scmVars, floodVars,
                 oaiVars, keyVars, memVars, rbVars, jobVars, chainVars,
                 sessVars>>

TickPair ==
  /\ now < PairMaxTime
  /\ now' = now + 1
  /\ UNCHANGED <<cbVars, orchVars, ttsVars, rlVars, scmVars, floodVars,
                 oaiVars, keyVars, memVars, rbVars, jobVars, chainVars,
                 sessVars, pairVars>>

NextPair == PairRequest \/ TickPair

\* ==================================================== SecureCacheManager

ScmCallers == 1..NScm

Dispatchers == 1..NDispatch

\* _make_key(*parts): the key the callers share
ScmKeys == {"k1"}

\* what value_fn may return; "None" is Python's None
ScmValues == {"None", "v1", "v2"}

\* the ttl argument of get_or_set: None (0 here) or a number of seconds
TtlArgs == {0, 2 * default_ttl}

NoData == [kind |-> "none", json |-> "", exp |-> 0]

\* json.dumps: None becomes the text null, a string its quoted text
Serialize(v) == IF v = "None" THEN "null" ELSE "q:" \o v

\* json.loads of a text json.dumps produced
Deserialize(d) == IF d = "null" THEN "None" ELSE IF d = "q:v1" THEN "v1" ELSE "v2"

\* SecureCacheManager.get: any exception of the read, and an absent or
\* expired key, give None
SecureGet(key, redis_ok) ==
  LET r == scm_store[key]
  IN  IF redis_ok /\ r.kind = "data" /\ now < r.exp
        THEN [value |-> Deserialize(r.json), raised |-> FALSE]
        ELSE [value |-> "None", raised |-> FALSE]

SecureSet_nx(key, value, ttl, redis_ok) ==
  LET t == IF ttl = 0 THEN default_ttl ELSE ttl
      r == scm_store[key]
  IN  [store |-> IF redis_ok /\ ~(r.kind = "data" /\ now < r.exp)
                   THEN [scm_store EXCEPT ![key] =
                           [kind |-> "data", json |-> Serialize(value),
                            exp |-> now + t]]
                   ELSE scm_store,
       raised |-> FALSE]

\* SecureCacheManager.set: setex with `ttl or self.default_ttl`; any
\* exception is logged and the write dropped
SecureSet(key, value, ttl, redis_ok) ==
  LET t == IF ttl = 0 THEN default_ttl ELSE ttl
  IN  [store |-> IF redis_ok
                   THEN [scm_store EXCEPT ![key] =
                           [kind |-> "data", json |-> Serialize(value),
                            exp |-> now + t]]
                   ELSE scm_store,
       raised |-> FALSE]

IdleGetOrSet == [pc |-> "idle", key |-> "k1", fn |-> FALSE, ttl |-> 0,
                 value |-> "None", ret |-> "None", get_failed |-> FALSE]

\* the locals of a get_or_set() that has returned or raised are gone
Ended(me, how, v) == [IdleGetOrSet EXCEPT !.pc = how, !.key = me.key, !.ret = v]

InitSCM ==
  /\ scm_store = [k \in ScmKeys |-> NoData]
  /\ goc = [c \in ScmCallers |-> IdleGetOrSet]

\* get_or_set(*parts, value_fn, ttl) up to `await self.get(key)`
ScmStart(c, key, fn, ttl) ==
  /\ goc[c].pc = "idle"
  /\ goc' = [goc EXCEPT ![c].pc = "get", ![c].key = key, ![c].fn = fn,
                        ![c].ttl = ttl]
  /\ UNCHANGED <<now, cbVars, pairVars, sessVars, chainVars, jobVars, rbVars, memVars, keyVars, orchVars, floodVars, oaiVars, ttsVars, rlVars, scm_store>>

\* `cached = await self.get(key)` and the two tests that follow it
ScmGet(c, redis_ok) ==
  /\ goc[c].pc = "get"
  /\ LET got == SecureGet(goc[c].key, redis_ok)
     IN  goc' = [goc EXCEPT ![c] =
           IF got.raised
             THEN Ended(@, "raised", "None")
             ELSE IF got.value # "None"
               THEN Ended(@, "returned", got.value)
               ELSE IF @.fn
                 THEN [@ EXCEPT !.pc = "compute", !.get_failed = ~redis_ok]
                 ELSE Ended(@, "returned", "None")]
  /\ UNCHANGED <<now, cbVars, pairVars, sessVars, chainVars, jobVars, rbVars, memVars, keyVars, orchVars, floodVars, oaiVars, ttsVars, rlVars, scm_store>>

\* `value = await value_fn()`
ScmCompute(c, v) ==
  /\ goc[c].pc = "compute"
  /\ goc' = [goc EXCEPT ![c].pc = "set", ![c].value = v,
                        ![c].get_failed = FALSE]
  /\ UNCHANGED <<now, cbVars, pairVars, sessVars, chainVars, jobVars, rbVars, memVars, keyVars, orchVars, floodVars, oaiVars, ttsVars, rlVars, scm_store>>

\* `await self.set(key, value, ttl)` and `return value`
ScmSet(c, redis_ok) ==
  /\ goc[c].pc = "set"
  /\ LET put == SecureSet(goc[c].key, goc[c].value, goc[c].ttl, redis_ok)
     IN  IF put.raised
           THEN /\ goc' = [goc EXCEPT ![c] = Ended(@, "raised", "None")]
                /\ UNCHANGED scm_store
           ELSE /\ goc' = [goc EXCEPT ![c] = Ended(@, "returned", @.value)]
                /\ scm_store' = put.store
  /\ UNCHANGED <<now, cbVars, pairVars, sessVars, chainVars, jobVars, rbVars, memVars, keyVars, orchVars, floodVars, oaiVars, ttsVars, rlVars>>

\* get_or_set() callers beside synthesize_speech() callers, each store
\* answering or raising at every call
NextCache ==
  \/ \E c \in ScmCallers, k \in ScmKeys, fn \in BOOLEAN, t \in TtlArgs :
       ScmStart(c, k, fn, t)
  \/ \E c \in ScmCallers, ok \in BOOLEAN : ScmGet(c, ok)
  \/ \E c \in ScmCallers, v \in ScmValues : ScmCompute(c, v)
  \/ \E c \in ScmCallers, ok \in BOOLEAN : ScmSet(c, ok)
  \/ \E c \in Dispatchers, t \in Texts, ok \in RedisAnswers : SynthStart(c, t, ok)
  \/ \E c \in Dispatchers, o \in Outcomes : \E a \in Bodies(o), ok \in RedisAnswers :
       SynthAttempt(c, o, a, ok)
  \/ \E c \in Dispatchers, ok \in BOOLEAN, a \in FallbackAudio : SynthFallback(c, ok, a)
  \/ TickTTS

InitBreaker == now = 0 /\ InitCB /\ InitOrchIdle /\ InitAdapter /\ InitRL /\ InitSCM /\ InitFloodIdle /\ InitOaiIdle /\ InitKeys /\ InitMem /\ InitRefillIdle /\ InitJobs /\ InitChain /\ InitSessions /\ InitPairIdle

SpecCB == InitBreaker /\ [][NextCB]_vars

InitOrchestrator == now = 0 /\ InitCB /\ InitOrchAny /\ InitAdapter /\ InitRL /\ InitSCM /\ InitFloodIdle /\ InitOaiIdle /\ InitKeys /\ InitMem /\ InitRefillIdle /\ InitJobs /\ InitChain /\ InitSessions /\ InitPairIdle

SpecOrch == InitOrchestrator /\ [][NextOrch]_vars

InitSynthesis == now = 0 /\ InitCB /\ InitOrchIdle /\ InitQueue /\ InitRL /\ InitSCM /\ InitFloodIdle /\ InitOaiIdle /\ InitKeys /\ InitMem /\ InitRefillIdle /\ InitJobs /\ InitChain /\ InitSessions /\ InitPairIdle

SpecTTS == InitSynthesis /\ [][NextTTS]_vars

InitLimiter == now = 0 /\ InitCB /\ InitOrchIdle /\ InitAdapter /\ InitRL /\ InitSCM /\ InitFloodIdle /\ InitOaiIdle /\ InitKeys /\ InitMem /\ InitRefillIdle /\ InitJobs /\ InitChain /\ InitSessions /\ InitPairIdle

SpecRL == InitLimiter /\ [][NextRL]_vars

\* the adapter as its methods drive it: nothing else puts jobs on the queue
NextAPI ==
  \/ \E c \in Synths, t \in Texts, ok \in RedisAnswers : SynthStart(c, t, ok)
  \/ \E c \in Synths, o \in Outcomes : \E a \in Bodies(o), ok \in RedisAnswers :
       SynthAttempt(c, o, a, ok)
  \/ \E c \in Synths, ok \in BOOLEAN, a \in FallbackAudio : SynthFallback(c, ok, a)
  \/ StartWorkers
  \/ TickTTS

InitAPI == now = 0 /\ InitCB /\ InitOrchIdle /\ InitMethods /\ InitRL /\ InitSCM /\ InitFloodIdle /\ InitOaiIdle /\ InitKeys /\ InitMem /\ InitRefillIdle /\ InitJobs /\ InitChain /\ InitSessions /\ InitPairIdle

SpecAPI == InitAPI /\ [][NextAPI]_vars

InitCache == now = 0 /\ InitCB /\ InitOrchIdle /\ InitClients /\ InitRL /\ InitSCM /\ InitFloodIdle /\ InitOaiIdle /\ InitKeys /\ InitMem /\ InitRefillIdle /\ InitJobs /\ InitChain /\ InitSessions /\ InitPairIdle

SpecCache == InitCache /\ [][NextCache]_vars

\* one task calls start_workers() and stop_workers(), each awaited before the
\* next call, while the worker tasks run
StartCall == stopper.pc # "waiting" /\ StartWorkers

NextPool ==
  \/ StartCall
  \/ \E w \in TaskIds : WorkerTake(w)
  \/ \E w \in TaskIds, o \in Outcomes : \E a \in Bodies(o), ok \in RedisAnswers :
       WorkerAttempt(w, o, a, ok)
  \/ StopBegin
  \/ \E w \in TaskIds : WorkerCancelled(w)
  \/ StopEnd

InitPool == now = 0 /\ InitCB /\ InitOrchIdle /\ InitQueue /\ InitRL /\ InitSCM /\ InitFloodIdle /\ InitOaiIdle /\ InitKeys /\ InitMem /\ InitRefillIdle /\ InitJobs /\ InitChain /\ InitSessions /\ InitPairIdle

SpecPool == InitPool /\ [][NextPool]_vars

\* the adapter driven through start_workers(), stop_workers() and
\* synthesize_speech() only.  The steps of a worker that has taken a job and
\* of a caller waiting on its future need a job on request_queue; they are
\* left out here and C39_QueueStaysEmpty shows them disabled in every state.
NextIdleQueue ==
  \/ \E c \in Synths, t \in Texts, ok \in RedisAnswers : SynthStart(c, t, ok)
  \/ \E c \in Synths, o \in Outcomes : \E a \in Bodies(o), ok \in RedisAnswers :
       SynthAttempt(c, o, a, ok)
  \/ \E c \in Synths, ok \in BOOLEAN, a \in FallbackAudio : SynthFallback(c, ok, a)
  \/ StartWorkers
  \/ StopBegin
  \/ \E w \in TaskIds : WorkerCancelled(w)
  \/ StopEnd

InitIdleQueue == now = 0 /\ InitCB /\ InitOrchIdle /\ InitClients /\ InitRL /\ InitSCM /\ InitFloodIdle /\ InitOaiIdle /\ InitKeys /\ InitMem /\ InitRefillIdle /\ InitJobs /\ InitChain /\ InitSessions /\ InitPairIdle

SpecIdleQueue == InitIdleQueue /\ [][NextIdleQueue]_vars

InitOpenAI == now = 0 /\ InitCB /\ InitOrchIdle /\ InitAdapter /\ InitRL /\ InitSCM /\ InitFloodIdle /\ InitOai /\ InitKeys /\ InitMem /\ InitRefillIdle /\ InitJobs /\ InitChain /\ InitSessions /\ InitPairIdle

SpecOpenAI == InitOpenAI /\ [][NextOpenAI]_vars

InitFlooding == now = 0 /\ InitCB /\ InitOrchIdle /\ InitAdapter /\ InitRL /\ InitSCM /\ InitFlood /\ InitOaiIdle /\ InitKeys /\ InitMem /\ InitRefillIdle /\ InitJobs /\ InitChain /\ InitSessions /\ InitPairIdle

SpecFlood == InitFlooding /\ [][NextFlood]_vars

\* synthesize_speech() calls one after another that differ in text, voice and
\* synthesis parameters
InitKey == now = 0 /\ InitCB /\ InitOrchIdle /\ InitAdapter /\ InitRL /\ InitSCM /\ InitFloodIdle /\ InitOaiIdle /\ InitKeys /\ InitMem /\ InitRefillIdle /\ InitJobs /\ InitChain /\ InitSessions /\ InitPairIdle

SpecKey == InitKey /\ [][NextKey]_vars

\* AudioCache.set calls on an in-process store that is nearly full
InitCap == now = 1 /\ InitCB /\ InitOrchIdle /\ InitAdapter /\ InitRL /\ InitSCM /\ InitFloodIdle /\ InitOaiIdle /\ InitKeys /\ InitMemFull /\ InitRefillIdle /\ InitJobs /\ InitChain /\ InitSessions /\ InitPairIdle

SpecMem == InitCap /\ [][NextMem]_vars

\* check() calls one after another on one bucket, seconds apart
InitRun == now = 0 /\ InitCB /\ InitOrchIdle /\ InitAdapter /\ InitRL /\ InitSCM /\ InitFloodIdle /\ InitOaiIdle /\ InitKeys /\ InitMem /\ InitRefill /\ InitJobs /\ InitChain /\ InitSessions /\ InitPairIdle

SpecRefill == InitRun /\ [][NextRefill]_vars

\* synthesis jobs in their retry loops
InitBackoff == now = 0 /\ InitCB /\ InitOrchIdle /\ InitAdapter /\ InitRL /\ InitSCM /\ InitFloodIdle /\ InitOaiIdle /\ InitKeys /\ InitMem /\ InitRefillIdle /\ InitJobs /\ InitChain /\ InitSessions /\ InitPairIdle

SpecBackoff == InitBackoff /\ [][NextBackoff]_vars

\* one dispatch through generate_with_emotion_chain(), on either build
InitDispatch == now = 0 /\ InitCB /\ InitOrchAny /\ InitAdapter /\ InitRL /\ InitSCM /\ InitFloodIdle /\ InitOaiIdle /\ InitKeys /\ InitMem /\ InitRefillIdle /\ InitJobs /\ InitChain /\ InitSessions /\ InitPairIdle

SpecChain == InitDispatch /\ [][NextChain]_vars

\* tasks that each read one session and write it back, and a delete
InitStore == now = 0 /\ InitCB /\ InitOrchIdle /\ InitAdapter /\ InitRL /\ InitSCM /\ InitFloodIdle /\ InitOaiIdle /\ InitKeys /\ InitMem /\ InitRefillIdle /\ InitJobs /\ InitChain /\ InitSessions /\ InitPairIdle

SpecSession == InitStore /\ [][NextSession]_vars

\* one user's requests given to both flood controls, each from an empty history
InitBoth == now = 0 /\ InitCB /\ InitOrchIdle /\ InitAdapter /\ InitRL /\ InitSCM /\ InitFloodIdle /\ InitOaiIdle /\ InitKeys /\ InitMem /\ InitRefillIdle /\ InitJobs /\ InitChain /\ InitSessions /\ InitPair

SpecFloodPair == InitBoth /\ [][NextPair]_vars

\* ------------------------------------------------------ breaker: claims
C1_Outcome ==
  \A c \in Callers :
    /\ call[c].pc = "rejected" => ~call[c].started
    /\ call[c].pc \in {"running", "returned", "failed", "cancelled"} => call[c].started

C1_Gate ==
  \A c \in Callers :
    (call[c].pc # "running" /\ call'[c] # call[c]) =>
      /\ call'[c].pc \in {"rejected", "running"}
      /\ (call'[c].pc = "rejected") <=>
           (cb.open /\ now - cb.last_failure < reset_timeout)
      /\ call'[c].started <=> (call'[c].pc = "running")
      /\ cb' = cb

\* C1: call() either runs the operation (and ends with the operation's result
\* or failure) or raises the breaker-open error without starting the
\* operation; it raises exactly when the breaker is open and less than
\* reset_timeout has passed since last_failure.
C1_CallRunsOrFailsFast == []C1_Outcome /\ [][C1_Gate]_vars

C1_Witness ==
  \E c, d \in Callers :
    /\ call[c].pc = "rejected" /\ ~call[c].started
    /\ cb.open /\ now - cb.last_failure < reset_timeout
    /\ call[d].pc = "failed"

C2_Counter ==
  ~overlap =>
    /\ cb.fail_count = consec
    /\ cb.open = (consec >= max_failures)
    /\ (consec > 0 => cb.last_failure = lastFailAt)

C2_NextCall ==
  \A c \in Callers :
    ( /\ ~overlap'
      /\ call[c].pc # "running" /\ call'[c] # call[c]
      /\ consec >= max_failures
      /\ now - lastFailAt < reset_timeout )
    => (call'[c].pc = "rejected" /\ ~call'[c].started)

\* C2: with calls issued one at a time, the failure counter equals the number
\* of failures since the last success (each failure +1, a success resets it
\* to 0); once it has reached max_failures the breaker is open with
\* last_failure the time of the last failure, and a call made less than
\* reset_timeout later is rejected without starting its operation.
C2_SequentialTrip == []C2_Counter /\ [][C2_NextCall]_vars

C2_Witness ==
  /\ ~overlap
  /\ consec = max_failures
  /\ cb.fail_count = max_failures
  /\ \E c \in Callers : call[c].pc = "rejected"
  /\ now > lastFailAt

\* C3: once reset_timeout has elapsed on an open breaker exactly one call is
\* admitted as the trial; no second call is admitted while the trial is in
\* flight.
C3_SingleTrial ==
  Cardinality({c \in Callers : call[c].pc = "running" /\ call[c].trial}) <= 1

\* ------------------------------------------------- orchestrator: claims
PrimariesFailed(g) ==
  \A n \in Primaries(gen[g].task_type) : task[g][n].st \in {"failed", "rejected"}

\* C4: on a cache miss generate returns the sanitized result of a primary call
\* that completed successfully; it ends without one only when every primary
\* call has failed, and the fallback is invoked only after every primary call
\* has failed.  Stated for the build in which asyncio.wait() accepts the
\* coroutines (in the other build generate raises TypeError at once).
C4_FirstSuccessWins ==
  \A g \in Gens : wait_wraps =>
    /\ (Finished(g) /\ ~gen[g].hit) =>
         \/ \E n \in Primaries(gen[g].task_type) :
              /\ task[g][n].st = "ok"
              /\ gen[g].pc = "returned"
              /\ gen[g].result = Str(Strip(task[g][n].val.s))
         \/ PrimariesFailed(g)
    /\ task[g]["fallback"].st # "none" => PrimariesFailed(g)

\* C5: when every primary call has failed and the fallback call succeeds,
\* generate returns the fallback's sanitized result and has written it to the
\* cache under the request's key.
C5_FallbackServes ==
  \A g \in Gens :
    ( /\ Finished(g) /\ ~gen[g].hit
      /\ PrimariesFailed(g)
      /\ task[g]["fallback"].st = "ok" )
    => /\ gen[g].pc = "returned"
       /\ gen[g].result = Str(Strip(task[g]["fallback"].val.s))
       /\ cache_on =>
            llm_cache[cache_key(gen[g].task_type, gen[g].prompt)] = gen[g].result

\* C6: generate raises only the total-outage error, and only when every
\* primary call and the fallback call have failed.  Stated for the build in
\* which asyncio.wait() accepts the coroutines (in the other build the
\* TypeError of asyncio.wait() escapes).
C6_OnlyTotalOutage ==
  \A g \in Gens :
    (wait_wraps /\ gen[g].pc = "raised") =>
      /\ gen[g].err = "RuntimeError"
      /\ PrimariesFailed(g)
      /\ task[g]["fallback"].st \in {"failed", "rejected"}

\* ------------------------------------------------------ adapter: claims
\* C7: once a provider has served a request, a second identical request made
\* within the TTL is answered from the cache (cached=True, counted in
\* requests_cached) and calls neither the provider nor the fallback.
C7_SecondFromCache ==
  \A c \in Synths :
    (synth[c].pc # "idle" /\ synth[c].after_served) =>
      /\ synth[c].pc = "returned"
      /\ synth[c].resp.cached
      /\ synth[c].fb_calls = 0
      /\ stats.requests_cached >= 1

\* C8: while the pool of max_workers workers is running, at most max_workers
\* jobs are being executed, the ones run directly by their callers included.
C8_BoundedExecution ==
  (~preloaded /\ is_running) => Cardinality(Executing) <= max_workers

C11_AtomicAdmission ==
  \A lim \in Limits :
    (now = 0 /\ rl_hist.lims = {lim}) => rl_hist.admitted <= lim.size

\* C12: on a bucket of capacity C and rate r that starts full, C calls made
\* one after another at one instant are admitted, the (C+1)-th is rejected,
\* and a further call made 1/r seconds or more later is admitted.
C12_Boundary ==
  \A lim \in Limits :
    (rl_hist.seq /\ rl_hist.lims = {lim}) =>
      /\ (rl_hist.same /\ rl_hist.finished <= lim.size)
           => rl_hist.admitted = rl_hist.finished
      /\ (rl_hist.same /\ rl_hist.finished = lim.size + 1)
           => rl_hist.admitted = lim.size
      /\ rl_hist.waited # "rej"

\* C13: the stored token count t satisfies 0 <= t <= capacity, the capacity
\* being that of the call which wrote it, also when the capacity changes
\* from one call to the next.
C13_TokensWithinCapacity ==
  bucket.tokens # Nil => (0 <= bucket.tokens /\ bucket.tokens <= bucket.cap)

\* what the bucket holds after refill, as seen in the store at time t by a
\* call with limits lim that took its clock reading sec
Held(lim, sec, t) ==
  Refill(Visible(bucket.tokens, bucket.tokens_exp, t),
         Visible(bucket.refill, bucket.refill_exp, t), lim, sec).tokens

\* C14: check() never waits: in a history of calls made one after another,
\* a call either stores the token count reduced by exactly one and returns,
\* or raises RateLimitExceeded; it raises exactly when the bucket holds no
\* token after refill, and then leaves the stored count and timestamp
\* unchanged.
C14_Writes ==
  \A c \in Checkers :
    (rl_hist.seq /\ chk[c].clean /\ chk[c].pc = "set_tokens"
       /\ chk'[c].pc = "set_refill") =>
      /\ chk[c].admit <=> Held(chk[c].lim, chk[c].sec, now) > 0
      /\ chk[c].admit => bucket'.tokens = Held(chk[c].lim, chk[c].sec, now) - 1
      /\ ~chk[c].admit =>
           /\ bucket.tokens # Nil /\ now < bucket.tokens_exp
           /\ bucket'.tokens = bucket.tokens

C14_Finish ==
  \A c \in Checkers :
    (rl_hist.seq /\ chk[c].clean /\ chk[c].pc = "set_refill"
       /\ chk'[c].pc = "idle") =>
      /\ rl_hist'.last_out = (IF chk[c].admit THEN "ok" ELSE "rej")
      /\ rl_hist'.admitted = rl_hist.admitted + (IF chk[c].admit THEN 1 ELSE 0)
      /\ ~chk[c].admit =>
           /\ bucket.refill # Nil /\ now < bucket.refill_exp
           /\ bucket'.refill = bucket.refill
           /\ bucket'.tokens = bucket.tokens

Failures == {c \in Synths : synth[c].cause # "none"}

\* C15: _process_tts_request calls the provider at most max_retries times
\* and always ends: a 200 returns the audio, a transient failure is followed
\* by another attempt while attempts remain, any other 4xx raises at once,
\* and it raises after max_retries transient failures.
C15_Attempts ==
  \A c \in Synths :
    /\ synth[c].attempt \in 0..(max_retries - 1)
    /\ synth[c].cause = "exhausted" => synth[c].attempt = max_retries - 1
    /\ synth[c].cause # "none" => synth[c].pc \in {"fallback", "raised", "returned"}
    /\ (synth[c].pc = "returned" /\ synth[c].fb_calls = 0 /\ ~synth[c].resp.cached)
         => (synth[c].cause = "none" /\ synth[c].resp.audio \in PrimaryAudio)

C15_Progress ==
  \A c \in Synths :
    (synth[c].pc = "processing" /\ synth'[c] # synth[c]) =>
      IF synth'[c].pc = "processing"
        THEN synth'[c].attempt = synth[c].attempt + 1
        ELSE synth'[c].attempt = synth[c].attempt

C15_RetryTerminates == []C15_Attempts /\ [][C15_Progress]_vars

\* the job raised after max_retries transient failures
C15_Witness ==
  \E c \in Synths : synth[c].cause = "exhausted" /\ synth[c].attempt = max_retries - 1

\* C16: a job whose provider call succeeds on attempt M after M-1 transient
\* failures returns that audio tagged with the primary provider, calls no
\* fallback, is not counted as failed and writes the audio to the cache once.
C16_Return ==
  \A c \in Synths :
    (synth[c].pc = "processing" /\ synth'[c].pc = "returned") =>
      /\ synth'[c].resp.provider = "elevenlabs"
      /\ ~synth'[c].resp.cached
      /\ synth'[c].resp.audio \in PrimaryAudio
      /\ synth'[c].fb_calls = 0
      /\ synth'[c].cause = "none"
      /\ synth'[c].sets = 1
      /\ stats'.requests_failed = stats.requests_failed
      /\ synth'[c].resp.audio.len < MemEntryLimit =>
           memory_cache'[KeyOf(synth[c].text)] = Entry(now, synth'[c].resp.audio)

C16_Counted ==
  /\ stats.requests_failed = Cardinality(Failures)
  /\ \A c \in Synths : synth[c].sets <= 1

C17_FallbackOnce ==
  \A c \in Synths :
    synth[c].cause = "exhausted" =>
      /\ fallback_on =>
           \/ synth[c].pc = "fallback" /\ synth[c].fb_calls = 0
           \/ synth[c].pc \in {"returned", "raised"} /\ synth[c].fb_calls = 1
      /\ ~fallback_on => (synth[c].pc = "raised" /\ synth[c].fb_calls = 0)
      /\ synth[c].pc = "returned" =>
           /\ synth[c].resp.provider = "openai_fallback"
           /\ synth[c].resp.audio \in FallbackAudio
           /\ ~synth[c].resp.cached

\* the fallback served a job whose retries were exhausted
C17_Witness ==
  \E c \in Synths :
    /\ synth[c].cause = "exhausted" /\ synth[c].pc = "returned"
    /\ synth[c].fb_calls = 1 /\ synth[c].resp.provider = "openai_fallback"

\* C18: a permanent provider error (a 4xx other than 429) reaches the caller
\* of synthesize_speech at once: no further provider call, no fallback call,
\* and the caller gets the error, not a fallback result.
C18_PermanentSurfaces ==
  \A c \in Synths :
    synth[c].cause = "permanent" => (synth[c].pc = "raised" /\ synth[c].fb_calls = 0)

\* --------------------------------------------- orchestrator: cancellation
\* C19: when a generate invocation has ended, no provider call it started is
\* still in flight: the losing calls were cancelled and awaited first.
C19_NoCallOutlivesGenerate ==
  \A g \in Gens :
    Finished(g) => \A n \in ProviderNames : task[g][n].st \notin {"created", "running"}

\* C20: a failure of the remote store never fails the caller. AudioCache.get
\* and SecureCacheManager.get with a raising store answer as a miss or from
\* the in-process store; both set() with a raising store leave the remote
\* store as it was and return; synthesize_speech() after the cache read goes
\* on to the provider or returns the cached audio, and after a 200 returns
\* the provider's audio; get_or_set() never raises and returns the cached
\* value or the value value_fn gave.
C20_Operators ==
  /\ \A k \in AudioKeys :
       LET got == AudioCacheGet(k, FALSE)
           m   == memory_cache[k]
       IN  /\ ~got.raised
           /\ got.audio = IF m.kind = "entry" /\ now - m.entry_time < cache_ttl
                            THEN m.audio ELSE NoAudio
  /\ \A k \in AudioKeys, a \in PrimaryAudio :
       LET put == AudioCacheSet(k, a, FALSE)
       IN  /\ ~put.raised /\ put.redis = redis_store
           /\ put.mem[k] = IF a.len < MemEntryLimit
                              THEN Entry(now, a) ELSE memory_cache[k]
  /\ \A k \in ScmKeys :
       /\ SecureGet(k, FALSE) = [value |-> "None", raised |-> FALSE]
       /\ \A v \in ScmValues, t \in TtlArgs :
            SecureSet(k, v, t, FALSE) = [store |-> scm_store, raised |-> FALSE]

C20_Dispatch ==
  \A c \in Dispatchers :
    LET key == KeyOf(synth'[c].text)
    IN  /\ (synth[c].pc = "idle" /\ synth'[c].pc # "idle") =>
             /\ synth'[c].pc \in {"returned", "processing", "queued"}
             /\ synth'[c].pc = "returned" =>
                  /\ synth'[c].resp.cached
                  /\ \E e \in {redis_store[key], memory_cache[key]} :
                       e.kind = "entry" /\ synth'[c].resp.audio = e.audio
        /\ (synth[c].pc = "processing" /\ synth'[c].pc = "returned") =>
             /\ synth'[c].resp.audio \in PrimaryAudio
             /\ ~synth'[c].resp.cached
             /\ memory_cache'[key] = IF synth'[c].resp.audio.len < MemEntryLimit
                                        THEN Entry(now, synth'[c].resp.audio)
                                        ELSE memory_cache[key]
             /\ redis_store'[key] \in {redis_store[key],
                                        Entry(now, synth'[c].resp.audio)}

C20_GetOrSet ==
  \A c \in ScmCallers :
    /\ goc'[c].pc # "raised"
    /\ (goc[c].pc = "get" /\ goc'[c].pc # "get") =>
         \/ goc'[c].pc = "compute" /\ goc[c].fn
         \/ goc'[c].pc = "returned" /\ goc'[c].ret = "None" /\ ~goc[c].fn
         \/ /\ goc'[c].pc = "returned" /\ goc'[c].ret # "None"
            /\ goc'[c].ret = Deserialize(scm_store[goc[c].key].json)
    /\ (goc[c].pc = "set" /\ goc'[c].pc # "set") =>
         /\ goc'[c].pc = "returned" /\ goc'[c].ret = goc[c].value
         /\ scm_store' \in {scm_store,
                            SecureSet(goc[c].key, goc[c].value, goc[c].ttl, TRUE).store}

C20_CacheFailureNeverFails ==
  [][C20_Operators /\ C20_Dispatch /\ C20_GetOrSet]_vars

\* a get_or_set() went on to value_fn after a raising read, another returned
\* value_fn's value although its write was dropped, and synthesize_speech()
\* returned the provider's audio although the remote write was dropped
C20_Witness ==
  /\ \E c \in ScmCallers : goc[c].pc = "compute" /\ goc[c].get_failed
  /\ \E c \in ScmCallers :
       /\ goc[c].pc = "returned" /\ goc[c].ret # "None"
       /\ scm_store[goc[c].key] = NoData
  /\ \E c \in Dispatchers :
       /\ redis_on
       /\ synth[c].pc = "returned" /\ ~synth[c].resp.cached
       /\ synth[c].resp.audio \in PrimaryAudio
       /\ redis_store[KeyOf(synth[c].text)].kind # "entry"

\* the remote store holds an unexpired entry under key
RemoteLive(key) ==
  /\ redis_on /\ redis_store[key].kind = "entry"
  /\ now < redis_store[key].entry_time + cache_ttl

\* C21: AudioCache.get never returns an in-process entry whose age has
\* reached cache_ttl: unless the remote store answers, such an entry is
\* deleted and the lookup is a miss; an in-process entry younger than
\* cache_ttl is returned unchanged (unless the remote store answers) and
\* stays in the store.
C21_Lookup ==
  \A c \in Synths :
    (synth[c].pc = "idle" /\ synth'[c].pc # "idle") =>
      LET key == KeyOf(synth'[c].text)
          m   == memory_cache[key]
          age == now - m.entry_time
          hit == synth'[c].pc = "returned"
      IN  /\ (m.kind = "entry" /\ age >= cache_ttl) =>
                IF hit
                  THEN RemoteLive(key) /\ synth'[c].resp.audio = redis_store[key].audio
                  ELSE memory_cache'[key] = None
          /\ (m.kind = "entry" /\ age < cache_ttl) =>
                /\ hit /\ synth'[c].resp.cached
                /\ \/ synth'[c].resp.audio = m.audio
                   \/ RemoteLive(key) /\ synth'[c].resp.audio = redis_store[key].audio
                /\ memory_cache' = memory_cache
          /\ m.kind = "none" => (hit => RemoteLive(key))

C21_NoStaleEntry == [][C21_Lookup]_vars

\* a provider's audio was stored in process, and a lookup made once its age
\* had reached cache_ttl deleted it and went on to the provider
C21_Witness ==
  \E c, d \in Synths :
    /\ synth[d].pc = "returned" /\ ~synth[d].resp.cached
    /\ synth[d].resp.provider = "elevenlabs"
    /\ synth[d].resp.audio.len < MemEntryLimit
    /\ synth[c].pc = "processing" /\ synth[c].text = synth[d].text
    /\ now >= cache_ttl
    /\ memory_cache[KeyOf(synth[c].text)] = None

\* the calls of user u that fall within the last interval_sec seconds at time t
RecentCalls(u, t) ==
  SelectSeq(fl_hist.calls[u], LAMBDA x : t - x < flood.cfg.interval_sec)

\* C22: is_flooding(u) returns True exactly when, counting the current call,
\* more than rate_limit calls by u (flagged ones included) fall within the
\* last interval_sec seconds, whatever other users have done.
C22_Verdict ==
  flood.last.user # 0 =>
    (flood.last.verdict <=>
       Len(RecentCalls(flood.last.user, flood.last.at)) > flood.cfg.rate_limit)

\* the worker tasks that have not ended
Live == {w \in TaskIds : wtask[w].st \in {"polling", "busy"}}

\* C23: with start_workers() and stop_workers() called one after another,
\* start_workers makes the adapter running with exactly max_workers new
\* worker tasks and changes nothing when it is running; stop_workers clears
\* is_running and returns with no worker task alive; the number of live
\* worker tasks never exceeds max_workers.
C23_Pool ==
  /\ Cardinality(Live) <= max_workers
  /\ is_running => (Live = workers /\ Cardinality(workers) = max_workers)
  /\ (stopper.pc # "waiting" /\ ~is_running) => Live = {}

C23_Calls ==
  /\ (~is_running /\ is_running') =>
       /\ Cardinality(workers') = max_workers
       /\ \A w \in workers' : wtask[w].st = "unused" /\ wtask'[w].st = "polling"
  /\ is_running =>
       /\ workers' = workers
       /\ \A w \in TaskIds : wtask[w].st = "unused" => wtask'[w].st = "unused"
  /\ (stopper.pc # "waiting" /\ stopper'.pc = "waiting") => ~is_running'
  /\ (stopper.pc = "waiting" /\ stopper'.pc = "returned") =>
       (~is_running' /\ \A w \in TaskIds : wtask'[w].st \notin {"polling", "busy"})

C24_EndsWithResponse ==
  \A c \in OaiCallers :
    /\ oai.call[c].posts <= openai_max_retries
    /\ oai.call[c].pc = "ended" => oai.call[c].out \notin {"none", "None"}

\* C25: the outcome of the trial call admitted after reset_timeout decides
\* the breaker's next state: when it succeeds the breaker is closed with
\* fail_count 0; when it fails the breaker is open with last_failure the time
\* of that failure, and calls are rejected again.
C25_TrialDecides ==
  \A c \in Callers :
    (call[c].pc = "running" /\ call[c].trial) =>
      /\ call'[c].pc = "returned" => (~cb'.open /\ cb'.fail_count = 0)
      /\ call'[c].pc = "failed" =>
           (cb'.open /\ cb'.last_failure = now /\ CBRejects(cb', now))

C25_TrialOutcome == [][C25_TrialDecides]_vars

\* C26: an open breaker is closed only by the success of a call admitted
\* after reset_timeout had elapsed; the completion of a call admitted while
\* the breaker was closed leaves an open breaker's flag, counter and
\* last_failure as they are.
C26_Completion ==
  /\ \A c \in Callers :
       (call[c].pc = "running" /\ ~call[c].trial /\ call'[c].pc # "running"
          /\ cb.open) => cb' = cb
  /\ (cb.open /\ ~cb'.open) =>
       \E c \in Callers :
         call[c].pc = "running" /\ call[c].trial /\ call'[c].pc = "returned"

C26_OnlyTrialCloses == [][C26_Completion]_vars

\* C27: the breaker's state is read and updated under its lock: every
\* failing call, concurrent ones included, raises fail_count by exactly one,
\* fail_count counts the failures since the last success, and the breaker is
\* open as soon as fail_count has reached max_failures.
C27_Counted ==
  /\ cb.fail_count = consec
  /\ cb.open <=> cb.fail_count >= max_failures

C27_Step ==
  \A c \in Callers :
    (call[c].pc = "running" /\ call'[c].pc = "failed") =>
      /\ cb'.fail_count = cb.fail_count + 1
      /\ cb'.open <=> (cb'.fail_count >= max_failures)

C27_Serialized == []C27_Counted /\ [][C27_Step]_vars

\* two calls were in flight together and both have failed, which opened the
\* breaker
C27_Witness ==
  /\ overlap /\ now = 0
  /\ \A c \in Callers : call[c].pc = "failed"
  /\ cb.fail_count = NCallers /\ cb.open

\* C28: on a cache miss where a primary provider call succeeds, generate
\* returns that provider's content stripped and cut to 4096 characters, and
\* the cache holds exactly the returned value under the request's key; an
\* invocation that writes the cache writes the value it returns.  Stated for
\* the build in which asyncio.wait() accepts the coroutines.
C28_Served ==
  \A g \in Gens :
    ( /\ wait_wraps /\ Finished(g) /\ ~gen[g].hit
      /\ \E n \in Primaries(gen[g].task_type) : task[g][n].st = "ok" )
    => /\ gen[g].pc = "returned"
       /\ \E n \in Primaries(gen[g].task_type) :
            /\ task[g][n].st = "ok"
            /\ gen[g].result = sanitize_output(task[g][n].val).val
       /\ Len(gen[g].result.s) <= OutputLimit
       /\ cache_on =>
            llm_cache[cache_key(gen[g].task_type, gen[g].prompt)] = gen[g].result

C28_WriteOnce ==
  \A k \in CacheKeys :
    llm_cache'[k] # llm_cache[k] =>
      \E g \in Gens :
        /\ gen[g].pc = "waiting" /\ gen'[g].pc = "returned"
        /\ k = cache_key(gen[g].task_type, gen[g].prompt)
        /\ llm_cache'[k] = gen'[g].result

C28_PrimaryServedAndCached == []C28_Served /\ [][C28_WriteOnce]_vars

\* C29: get_or_set keeps no record of a computation in flight, so two calls
\* for one key can both miss and both call value_fn; each then writes, and a
\* write that reaches the store replaces whatever entry the key holds, so the
\* value left at the end is the one written last.
C29_Overwrites ==
  \A c \in ScmCallers :
    goc[c].pc = "set" =>
      LET t == IF goc[c].ttl = 0 THEN default_ttl ELSE goc[c].ttl
      IN  SecureSet(goc[c].key, goc[c].value, goc[c].ttl, TRUE).store[goc[c].key]
            = [kind |-> "data", json |-> Serialize(goc[c].value), exp |-> now + t]

C29_Write ==
  \A k \in ScmKeys :
    scm_store'[k] # scm_store[k] =>
      \E c \in ScmCallers :
        /\ goc[c].pc = "set" /\ goc[c].key = k
        /\ goc'[c].pc = "returned" /\ goc'[c].ret = goc[c].value
        /\ scm_store'[k].json = Serialize(goc[c].value)

C29_LastWriteWins == []C29_Overwrites /\ [][C29_Write]_vars

\* two calls for one key have both missed and both computed, with different
\* values, and neither has written yet
C29_Witness ==
  \E c1, c2 \in ScmCallers :
    /\ c1 # c2 /\ goc[c1].key = goc[c2].key
    /\ goc[c1].pc = "set" /\ goc[c2].pc = "set"
    /\ goc[c1].value = "v1" /\ goc[c2].value = "v2"
    /\ scm_store[goc[c1].key] = NoData

\* C30: AudioCache answers from its in-process store only when the call to
\* the remote store has failed: with a remote store that answers the call and
\* holds no unexpired entry under the key, get reports a miss, whatever the
\* in-process store holds.
C30_RemoteMissIsMiss ==
  \A k \in AudioKeys :
    (redis_on /\ ~RemoteLive(k)) => AudioCacheGet(k, TRUE).audio = NoAudio

\* C31: two synthesis requests share a cache entry only if they have the same
\* normalized text, the same voice and the same synthesis parameters:
\* synthesize_speech never returns cached audio that was made for a request
\* with different parameters, and identical requests map to the same key.
C31_KeySeparates ==
  /\ \A r1, r2 \in SynthRequests :
       Payload(r1) = Payload(r2) => RequestKey(r1) = RequestKey(r2)
  /\ (key_call.pc = "returned" /\ key_call.cached) =>
       key_call.audio = Payload(key_call.req)

\* C32: after every AudioCache.set the in-process store holds at most 50
\* entries; a write that makes it exceed 50 removes exactly one entry, one
\* with the oldest write time, and never the entry just written.
C32_Cap == Len(mem.order) <= MemCacheSize

C32_Evicts ==
  mem_last' # mem_last \/ mem' # mem =>
    LET key   == mem_last'.key
        added == IF mem_last'.small THEN HeldKeys(mem) \cup {key}
                 ELSE HeldKeys(mem)
        gone  == added \ HeldKeys(mem')
    IN  IF mem_last'.small /\ Cardinality(added) > MemCacheSize
          THEN /\ Cardinality(gone) = 1
               /\ key \notin gone
               /\ \A g \in gone, k \in HeldKeys(mem) \ {key} :
                    mem.time[g] <= mem.time[k]
               /\ mem'.time[key] = now
          ELSE gone = {}

C32_BoundedStore == []C32_Cap /\ [][C32_Evicts]_vars

\* a write of a new key to a store of 50 entries has removed the first key
\* and left the new one in the store
C32_Witness ==
  /\ mem_last.key = MemCacheSize + 1 /\ mem_last.small
  /\ Len(mem.order) = MemCacheSize
  /\ mem.time[MemCacheSize + 1] = now
  /\ mem.time[1] = NoTime

\* C33: each check refills the bucket to min(capacity, stored + elapsed x
\* refill_rate); elapsed time that has not yet produced a whole token is
\* carried over to the next check, so that on a bucket that never fills up
\* the tokens credited in T seconds total floor(T x refill_rate).
C33_CarriesOver ==
  ~rb.filled => rb.credited = TruncDiv(rb.at * rb.lim.num, rb.lim.den)

\* C34: before the retry that follows failed attempt number k a synthesis
\* job waits 2^k seconds (base 1, below any cap while k < max_retries); when
\* an HTTP 429 response carries a Retry-After hint, the job waits the hinted
\* time.
C34_Waits ==
  \A j \in TtsJobs :
    job[j].pc = "sleep" =>
      job[j].slept = IF job[j].status = "429" /\ job[j].hint > 0
                       THEN job[j].hint ELSE Pow2(job[j].attempt)

\* the dispatch made at least one call of the fallback provider
FallbackInvoked ==
  \E g \in {LogicGen, FallbackGen} : task[g]["fallback"].st # "none"

\* C35: fallback_used is incremented exactly once for a dispatch in which the
\* fallback provider was invoked and not at all for a dispatch in which it
\* was not; total_requests is incremented exactly once per dispatch.
C35_CountsFallbacks ==
  chain.pc \in {"returned", "raised"} =>
    /\ chain.total_requests = 1
    /\ chain.fallback_used = IF FallbackInvoked THEN 1 ELSE 0

\* C36: set_with_version stores the context only if the caller's version
\* equals the stored version (0 when the session is absent) and then raises
\* the stored version by one; otherwise it raises a version conflict and
\* leaves the session unchanged.  So of two writers that read the same state
\* of a session, never both succeed, also when a delete happens in between.
C36_Step ==
  \A w \in Writers :
    (writer[w].pc = "read" /\ writer'[w].pc # "read") =>
      IF writer[w].version = session.data.version
        THEN /\ writer'[w].pc = "stored"
             /\ session'.data = Stored(writer'[w].ctx, session.data.version + 1)
        ELSE /\ writer'[w].pc = "conflict"
             /\ session'.data = session.data

C36_OneWins ==
  \A a, b \in Writers :
    ( /\ a # b
      /\ writer[a].pc \in {"stored", "conflict"}
      /\ writer[b].pc \in {"stored", "conflict"}
      /\ writer[a].epoch = writer[b].epoch )
    => ~(writer[a].pc = "stored" /\ writer[b].pc = "stored")

C36_OptimisticLock == []C36_OneWins /\ [][C36_Step]_vars

\* C37: in every reachable state of the breaker, under any interleaving of
\* concurrent calls, the open flag is true exactly when the failure counter
\* is at or above max_failures.
C37_OpenIffTripped ==
  /\ cb.open = (cb.fail_count >= max_failures)
  /\ cb.fail_count >= 0

\* calls in flight together have failed one after another and taken the
\* counter past max_failures
C37_Witness ==
  /\ overlap /\ cb.open
  /\ cb.fail_count > max_failures

\* C38: a call that is cancelled while its operation is in flight changes
\* neither fail_count nor open nor last_failure; an operation that times out
\* (or raises any other Exception) is counted as a failure.
C38_Step ==
  \A c \in Callers :
    /\ (call[c].pc = "running" /\ call'[c].pc = "cancelled") => cb' = cb
    /\ (call[c].pc = "running" /\ call'[c].pc = "failed") =>
         /\ cb'.fail_count = cb.fail_count + 1
         /\ cb'.last_failure = now

C38_CancelIsNeutral == [][C38_Step]_vars

\* one call has failed and another was cancelled in flight: the counter
\* stands at one and the breaker is closed
C38_Witness ==
  \E c, d \in Callers :
    /\ call[c].pc = "cancelled" /\ call[d].pc = "failed"
    /\ cb.fail_count = 1 /\ ~cb.open /\ overlap

\* C39: in every state reachable through start_workers, stop_workers and
\* concurrent synthesize_speech calls the request queue is empty:
\* synthesize_speech enqueues only onto a non-empty queue, so every job runs
\* in its caller's task, no caller waits on a future and no worker holds a job.
C39_QueueStaysEmpty ==
  /\ request_queue = <<>>
  /\ \A c \in Synths : synth[c].pc # "queued"
  /\ \A w \in TaskIds : wtask[w].st # "busy" /\ wtask[w].job = 0
  /\ \A j \in Jobs : fut[j].st = "none"

\* with the workers running and polling, one call has been served by the
\* provider in its own task and another is in its retry loop
C39_Witness ==
  /\ is_running /\ \E w \in workers : wtask[w].st = "polling"
  /\ \E c, d \in Synths :
       /\ synth[c].pc = "returned" /\ ~synth[c].resp.cached
       /\ synth[d].pc = "processing"

\* C40: fed the same sequence of timestamped requests of one user, each from
\* an empty history, AsyncRedisFloodControl and the InMemoryFloodControl it
\* falls back to return the same verdict on every request, in both modules.
C40_SameVerdict ==
  pair.calls > 0 => pair.redis_verdict = pair.memory_verdict

====
